---------------------------- MODULE Spec2Model ----------------------------
(***************************************************************************)
(* A model of the idb_cmp1 comparator (indexeddb/comparer.go) and of the   *)
(* prefix-range engine (indexeddb/prefix.go) of leveldb-cli.               *)
(*                                                                         *)
(* Keys are sequences of bytes (0..255).  64-bit machine integers are      *)
(* modelled as functions 0..63 -> {0,1} (bit i has weight 2^i), so that    *)
(* the code's shifts, masks, wrap-around and signed comparisons keep the   *)
(* width they have in the source.  A Go panic is modelled by a "panic"     *)
(* field in the value a function returns; callers hand it on until the     *)
(* deferred recover of Compare catches it.                                 *)
(***************************************************************************)
EXTENDS Integers, Sequences, FiniteSets, TLC

VARIABLES
    mode,     \* what the caller is doing: "compare", "order", "prefix", "succ", "codec"
    keys,     \* the caller's inputs: byte sequences, or an id triple
    pc,       \* how many calls the caller has made
    rets,     \* what the calls returned, by the name of the call
    stderr,   \* what Compare wrote to standard error: one [a, b] per warning
    crashed   \* TRUE once a panic has left a call of the exposed interface

vars == <<mode, keys, pc, rets, stderr, crashed>>

(***************************************************************************)
(* Bytes and 64-bit words                                                  *)
(***************************************************************************)

Pow2(k) == 2 ^ k

\* bit k (0 = least significant) of the small natural number n
Bit(n, k) == (n \div Pow2(k)) % 2

Take(s, n) == SubSeq(s, 1, n)

Drop(s, n) == SubSeq(s, n + 1, Len(s))

MinNat(x, y) == IF x <= y THEN x ELSE y

MaxNat(x, y) == IF x >= y THEN x ELSE y

\* cmp.Compare on Go ints, bytes and lengths that fit a model integer
CmpInt(x, y) == IF x < y THEN -1 ELSE IF x > y THEN 1 ELSE 0

U64Zero == [i \in 0..63 |-> 0]

\* uint64(n) for a natural number n below 2^30 (a length, a byte, a count)
U64FromNat(n) == [i \in 0..63 |-> IF i < 30 THEN Bit(n, i) ELSE 0]

\* the word with only bit k set: uint64(1) << k
U64Bit(k) == [i \in 0..63 |-> IF i = k THEN 1 ELSE 0]

\* the word with the k low bits set: (uint64(1) << k) - 1
U64Mask(k) == [i \in 0..63 |-> IF i < k THEN 1 ELSE 0]

\* math.MaxInt64
MaxInt64 == U64Mask(63)

\* math.MaxUint32
MaxUint32 == U64Mask(32)

U64Or(x, y) == [i \in 0..63 |-> IF x[i] = 1 \/ y[i] = 1 THEN 1 ELSE 0]

\* x &^ y
U64AndNot(x, y) == [i \in 0..63 |-> IF x[i] = 1 /\ y[i] = 0 THEN 1 ELSE 0]

\* x << k, bits shifted past bit 63 are lost
U64Shl(x, k) == [i \in 0..63 |-> IF i >= k THEN x[i - k] ELSE 0]

\* x + 1, wrapping at 2^64
U64Inc(x) ==
    LET zeros == {i \in 0..63 : x[i] = 0}
    IN  IF zeros = {} THEN U64Zero
        ELSE LET z == CHOOSE i \in zeros : \A j \in zeros : i <= j
             IN  [i \in 0..63 |-> IF i < z THEN 0 ELSE IF i = z THEN 1 ELSE x[i]]

\* comparison of two words as unsigned numbers
U64Cmp(x, y) ==
    LET diff == {i \in 0..63 : x[i] # y[i]}
    IN  IF diff = {} THEN 0
        ELSE LET m == CHOOSE i \in diff : \A j \in diff : j <= i
             IN  IF x[m] < y[m] THEN -1 ELSE 1

\* cmp.Compare on int64: the words read as two's-complement numbers
I64Cmp(x, y) ==
    IF x[63] # y[63] THEN (IF x[63] = 1 THEN -1 ELSE 1) ELSE U64Cmp(x, y)

\* bits.Len64: the number of bits needed to represent x
U64BitLen(x) ==
    LET ones == {i \in 0..63 : x[i] = 1}
    IN  IF ones = {} THEN 0
        ELSE 1 + (CHOOSE i \in ones : \A j \in ones : j <= i)

RECURSIVE U64Field(_, _, _)
\* the number the n bits of x from bit lo upwards represent (n <= 30)
U64Field(x, lo, n) == IF n = 0 THEN 0 ELSE x[lo] + 2 * U64Field(x, lo + 1, n - 1)

\* the value of a small word as a model integer
U64ToNat(x) == U64Field(x, 0, 30)

\* byte j (0 = least significant) of the word
U64Byte(x, j) == U64Field(x, 8 * j, 8)

\* binary.LittleEndian.PutUint64 followed by buf[:n]
U64ToBytes(x, n) == [j \in 1..n |-> U64Byte(x, j - 1)]

\* the little-endian bytes of s (at most 8) as a word, zero-extended
U64FromBytes(s) ==
    [i \in 0..63 |-> IF i \div 8 < Len(s) THEN Bit(s[(i \div 8) + 1], i % 8) ELSE 0]

\* bytes.Compare: lexicographic order of byte sequences
BytesCompare(a, b) ==
    LET n == MinNat(Len(a), Len(b))
        diff == {i \in 1..n : a[i] # b[i]}
    IN  IF diff = {} THEN CmpInt(Len(a), Len(b))
        ELSE LET m == CHOOSE i \in diff : \A j \in diff : i <= j
             IN  CmpInt(a[m], b[m])

(***************************************************************************)
(* indexeddb/comparer.go: constants                                        *)
(***************************************************************************)

globalMetadata == 0

databaseMetadata == 1

objectStoreData == 2

existsEntry == 3

indexData == 4

invalidType == 5

blobEntry == 6

objectStoreDataIndexId == 1

existsEntryIndexId == 2

blobEntryIndexId == 3

minimumIndexId == 30

maxSimpleGlobalMetaDataTypeByte == 7

scopesPrefixByte == 50

databaseFreeListTypeByte == 100

databaseNameTypeByte == 201

maxSimpleDatabaseMetaDataTypeByte == 6

objectStoreMetaDataTypeByte == 50

indexMetaDataTypeByte == 100

objectStoreFreeListTypeByte == 150

indexFreeListTypeByte == 151

objectStoreNamesTypeByte == 200

indexNamesKeyTypeByte == 201

indexedDBKeyNullTypeByte == 0

indexedDBKeyStringTypeByte == 1

indexedDBKeyDateTypeByte == 2

indexedDBKeyNumberTypeByte == 3

indexedDBKeyArrayTypeByte == 4

indexedDBKeyMinKeyTypeByte == 5

indexedDBKeyBinaryTypeByte == 6

indexedDBInvalidKeyType == 0

indexedDBArrayKeyType == 1

indexedDBBinaryKeyType == 2

indexedDBStringKeyType == 3

indexedDBDateKeyType == 4

indexedDBNumberKeyType == 5

indexedDBMinKeyType == 7

(***************************************************************************)
(* indexeddb/comparer.go: decoding and the comparison of encoded values    *)
(***************************************************************************)

\* what a comparison helper returns when it panics("invalid key")
PanicCmp == [a |-> <<>>, b |-> <<>>, ret |-> 0, panic |-> TRUE]

\* a helper's normal return: the two rests and the ordering
CmpResult(ra, rb, r) == [a |-> ra, b |-> rb, ret |-> r, panic |-> FALSE]

\* decodeInt: little-endian bytes to int64; panics on no byte or more than 8
decodeInt(a) ==
    IF Len(a) = 0 \/ Len(a) > 8
    THEN [v |-> U64Zero, panic |-> TRUE]
    ELSE [v |-> U64FromBytes(a), panic |-> FALSE]

\* where the loop of decodeVarInt stops: the index of the first of the first
\* min(len, 9) bytes with the continuation bit clear, 0 when there is none
varIntEnd(a) ==
    LET ends == {i \in 1..MinNat(Len(a), 9) : a[i] < 128}
    IN  IF ends = {} THEN 0 ELSE CHOOSE i \in ends : \A j \in ends : i <= j

\* the value the loop has built from the first n bytes: 7 bits from each
varIntValue(a, n) ==
    [i \in 0..63 |-> IF i \div 7 < n THEN Bit(a[(i \div 7) + 1] % 128, i % 7) ELSE 0]

\* what decodeVarInt returns when its loop stops at byte e (0: it panics)
decodeVarIntAt(a, e) ==
    IF e = 0
    THEN [rest |-> <<>>, v |-> U64Zero, panic |-> TRUE]
    ELSE [rest |-> Drop(a, e), v |-> varIntValue(a, e), panic |-> FALSE]

\* decodeVarInt: 7-bit groups, at most 9; panics when none of the first
\* min(len, 9) bytes has the continuation bit clear
decodeVarInt(a) == decodeVarIntAt(a, varIntEnd(a))

\* min(x, cap) as a model integer, for a word x and a small cap
U64CapNat(x, cap) == IF U64Cmp(x, U64FromNat(cap)) < 0 THEN U64ToNat(x) ELSE cap

\* compareTruncated that leaves a tie of the common bytes a tie
compareTruncatedTie(c, v1, v2) == CmpResult(<<>>, <<>>, c)

\* the return of the truncated branch: c is the order of the common bytes,
\* the declared lengths v1, v2 break a tie
compareTruncated(c, v1, v2) ==
    IF c # 0 THEN CmpResult(<<>>, <<>>, c) ELSE CmpResult(<<>>, <<>>, I64Cmp(v1, v2))

\* "minlen := min(len1, len2, int64(len(a)), int64(len(b)))"
minPayloadLen(ra, rb, len1, len2) ==
    MinNat(U64CapNat(len1, MinNat(Len(ra), Len(rb))), U64CapNat(len2, MinNat(Len(ra), Len(rb))))

\* the part of compareBinary and compareStringWithLength after the lengths are
\* decoded: ra, rb the rests, len1, len2 the payload lengths in bytes, and
\* v1, v2 the declared lengths that break a tie of truncated payloads
comparePayloads(ra, rb, len1, len2, v1, v2) ==
    IF U64Cmp(U64FromNat(Len(ra)), len1) < 0 \/ U64Cmp(U64FromNat(Len(rb)), len2) < 0
    THEN compareTruncated(BytesCompare(Take(ra, minPayloadLen(ra, rb, len1, len2)),
                                       Take(rb, minPayloadLen(ra, rb, len1, len2))),
                          v1, v2)
    ELSE CmpResult(Drop(ra, U64ToNat(len1)), Drop(rb, U64ToNat(len2)),
                   BytesCompare(Take(ra, U64ToNat(len1)), Take(rb, U64ToNat(len2))))

\* compareBinary (shift 0) and compareStringWithLength (shift 1: two bytes per
\* character) once both lengths are decoded
compareLengthPrefixed(da, db, shift) ==
    IF da.panic \/ db.panic THEN PanicCmp
    ELSE comparePayloads(da.rest, db.rest, U64Shl(da.v, shift), U64Shl(db.v, shift),
                         da.v, db.v)

compareBinary(a, b) == compareLengthPrefixed(decodeVarInt(a), decodeVarInt(b), 0)

compareStringWithLength(a, b) == compareLengthPrefixed(decodeVarInt(a), decodeVarInt(b), 1)

\* whether the word, read as an IEEE-754 double, is a NaN
F64IsNaN(x) == (\A i \in 52..62 : x[i] = 1) /\ (\E i \in 0..51 : x[i] = 1)

\* whether the word, read as a double, is +0 or -0
F64IsZero(x) == \A i \in 0..62 : x[i] = 0

\* cmp.Compare on float64: a NaN is less than any non-NaN and equal to a NaN,
\* -0 equals +0, otherwise the numeric order
F64Cmp(x, y) ==
    IF F64IsNaN(x) THEN (IF F64IsNaN(y) THEN 0 ELSE -1)
    ELSE IF F64IsNaN(y) THEN 1
    ELSE IF F64IsZero(x) /\ F64IsZero(y) THEN 0
    ELSE IF x[63] # y[63] THEN (IF x[63] = 1 THEN -1 ELSE 1)
    ELSE IF x[63] = 0 THEN U64Cmp(x, y)
    ELSE U64Cmp(y, x)

\* compareDouble: 8 bytes each side, read in the byte order of the machine
\* (little-endian on every platform the project builds for)
compareDouble(a, b) ==
    IF Len(a) < 8 \/ Len(b) < 8 THEN PanicCmp
    ELSE CmpResult(Drop(a, 8), Drop(b, 8),
                   F64Cmp(U64FromBytes(Take(a, 8)), U64FromBytes(Take(b, 8))))

\* keyTypeByteToKeyType with the date and number tags given one rank
keyTypeByteToKeyTypeShared(b) ==
    CASE b = indexedDBKeyNullTypeByte   -> indexedDBInvalidKeyType
      [] b = indexedDBKeyArrayTypeByte  -> indexedDBArrayKeyType
      [] b = indexedDBKeyBinaryTypeByte -> indexedDBBinaryKeyType
      [] b = indexedDBKeyStringTypeByte -> indexedDBStringKeyType
      [] b = indexedDBKeyDateTypeByte   -> indexedDBDateKeyType
      [] b = indexedDBKeyNumberTypeByte -> indexedDBDateKeyType
      [] b = indexedDBKeyMinKeyTypeByte -> indexedDBMinKeyType
      [] OTHER                          -> indexedDBInvalidKeyType

keyTypeByteToKeyType(b) ==
    CASE b = indexedDBKeyNullTypeByte   -> indexedDBInvalidKeyType
      [] b = indexedDBKeyArrayTypeByte  -> indexedDBArrayKeyType
      [] b = indexedDBKeyBinaryTypeByte -> indexedDBBinaryKeyType
      [] b = indexedDBKeyStringTypeByte -> indexedDBStringKeyType
      [] b = indexedDBKeyDateTypeByte   -> indexedDBDateKeyType
      [] b = indexedDBKeyNumberTypeByte -> indexedDBNumberKeyType
      [] b = indexedDBKeyMinKeyTypeByte -> indexedDBMinKeyType
      [] OTHER                          -> indexedDBInvalidKeyType

\* the guard "if len(a) == 0 || len(b) == 0 { return a, b, cmp.Compare(len(a), len(b)) }"
EitherEmpty(a, b) == Len(a) = 0 \/ Len(b) = 0

RECURSIVE compareEncodedIDBKeys(_, _)
RECURSIVE compareArrayElements(_, _, _)
RECURSIVE compareArrayNext(_, _)

\* the loop of the array case: n iterations are left.  Every iteration takes
\* at least the tag byte from both sides, so the loop of min(len1, len2)
\* iterations ends after at most min(len(a), len(b)) of them.
compareArrayElements(a, b, n) ==
    IF n = 0 \/ EitherEmpty(a, b) THEN CmpResult(a, b, 0)
    ELSE compareArrayNext(compareEncodedIDBKeys(a, b), n)

\* the rest of one iteration: r is what the comparison of the elements returned
compareArrayNext(r, n) ==
    IF r.panic \/ r.ret # 0 THEN r ELSE compareArrayElements(r.a, r.b, n - 1)

\* compareArrayEnd that puts the side without data first
compareArrayEndByData(r, len1, len2) ==
    IF r.panic \/ r.ret # 0 THEN r
    ELSE IF EitherEmpty(r.a, r.b) THEN CmpResult(r.a, r.b, CmpInt(Len(r.a), Len(r.b)))
    ELSE CmpResult(r.a, r.b, I64Cmp(len1, len2))

\* after the loop: "return a, b, cmp.Compare(len1, len2)" unless the loop returned
compareArrayEnd(r, len1, len2) ==
    IF r.panic \/ r.ret # 0 THEN r ELSE CmpResult(r.a, r.b, I64Cmp(len1, len2))

\* min(len1, len2) on int64
MinI64(x, y) == IF I64Cmp(x, y) <= 0 THEN x ELSE y

\* the array case once both element counts are decoded
compareArray(da, db) ==
    IF da.panic \/ db.panic THEN PanicCmp
    ELSE compareArrayEnd(
             compareArrayElements(da.rest, db.rest,
                                  U64CapNat(MinI64(da.v, db.v),
                                            MinNat(Len(da.rest), Len(db.rest)))),
             da.v, db.v)

\* compareSameType without "if len(a) == 0 || len(b) == 0" before the helpers
compareSameTypeUnguarded(typeByte, ra, rb) ==
    IF typeByte \in {indexedDBKeyNullTypeByte, indexedDBKeyMinKeyTypeByte}
    THEN CmpResult(ra, rb, 0)
    ELSE IF typeByte = indexedDBKeyBinaryTypeByte THEN compareBinary(ra, rb)
    ELSE IF typeByte = indexedDBKeyStringTypeByte THEN compareStringWithLength(ra, rb)
    ELSE IF typeByte \in {indexedDBKeyDateTypeByte, indexedDBKeyNumberTypeByte}
         THEN compareDouble(ra, rb)
    ELSE IF typeByte = indexedDBKeyArrayTypeByte
         THEN compareArray(decodeVarInt(ra), decodeVarInt(rb))
    ELSE PanicCmp

\* compareEncodedIDBKeys after the tags were found to have the same rank;
\* ra, rb follow the tag bytes
compareSameType(typeByte, ra, rb) ==
    IF typeByte \in {indexedDBKeyNullTypeByte, indexedDBKeyMinKeyTypeByte}
    THEN CmpResult(ra, rb, 0)
    ELSE IF typeByte \notin {indexedDBKeyArrayTypeByte, indexedDBKeyBinaryTypeByte,
                             indexedDBKeyStringTypeByte, indexedDBKeyDateTypeByte,
                             indexedDBKeyNumberTypeByte}
         THEN PanicCmp
    ELSE IF EitherEmpty(ra, rb) THEN CmpResult(ra, rb, CmpInt(Len(ra), Len(rb)))
    ELSE IF typeByte = indexedDBKeyBinaryTypeByte THEN compareBinary(ra, rb)
    ELSE IF typeByte = indexedDBKeyStringTypeByte THEN compareStringWithLength(ra, rb)
    ELSE IF typeByte \in {indexedDBKeyDateTypeByte, indexedDBKeyNumberTypeByte}
         THEN compareDouble(ra, rb)
    ELSE compareArray(decodeVarInt(ra), decodeVarInt(rb))

compareEncodedIDBKeys(a, b) ==
    IF EitherEmpty(a, b) THEN CmpResult(a, b, CmpInt(Len(a), Len(b)))
    ELSE IF keyTypeByteToKeyType(a[1]) # keyTypeByteToKeyType(b[1])
         THEN CmpResult(Drop(a, 1), Drop(b, 1),
                        CmpInt(keyTypeByteToKeyType(a[1]), keyTypeByteToKeyType(b[1])))
    ELSE compareSameType(a[1], Drop(a, 1), Drop(b, 1))

(***************************************************************************)
(* indexeddb/comparer.go: the key prefix and Compare                       *)
(***************************************************************************)

\* the keyPrefix struct
KeyPrefix(d, o, i) == [DatabaseId |-> d, ObjectStoreId |-> o, IndexId |-> i]

\* (*keyPrefix).Type
Type(k) ==
    IF k.DatabaseId = U64Zero THEN globalMetadata
    ELSE IF k.ObjectStoreId = U64Zero THEN databaseMetadata
    ELSE IF k.IndexId = U64FromNat(objectStoreDataIndexId) THEN objectStoreData
    ELSE IF k.IndexId = U64FromNat(existsEntryIndexId) THEN existsEntry
    ELSE IF k.IndexId = U64FromNat(blobEntryIndexId) THEN blobEntry
    ELSE IF I64Cmp(k.IndexId, U64FromNat(minimumIndexId)) >= 0 THEN indexData
    ELSE invalidType

\* the three widths the header byte declares
databaseIdBytes(firstByte) == ((firstByte \div 32) % 8) + 1

objectStoreIdBytes(firstByte) == ((firstByte \div 4) % 8) + 1

indexIdBytes(firstByte) == (firstByte % 4) + 1

\* decodeKeyPrefix after the header byte: r follows it, dn, on, in are the widths
decodeKeyPrefixIds(r, dn, on, in) ==
    IF Len(r) < dn + on + in
    THEN [rest |-> <<>>, prefix |-> KeyPrefix(U64Zero, U64Zero, U64Zero), panic |-> TRUE]
    ELSE [rest |-> Drop(r, dn + on + in),
          prefix |-> KeyPrefix(decodeInt(Take(r, dn)).v,
                               decodeInt(SubSeq(r, dn + 1, dn + on)).v,
                               decodeInt(SubSeq(r, dn + on + 1, dn + on + in)).v),
          panic |-> FALSE]

decodeKeyPrefix(a) ==
    IF Len(a) = 0
    THEN [rest |-> <<>>, prefix |-> KeyPrefix(U64Zero, U64Zero, U64Zero), panic |-> TRUE]
    ELSE decodeKeyPrefixIds(Drop(a, 1), databaseIdBytes(a[1]), objectStoreIdBytes(a[1]),
                            indexIdBytes(a[1]))

compareKeyPrefix(a, b) ==
    IF I64Cmp(a.DatabaseId, b.DatabaseId) # 0 THEN I64Cmp(a.DatabaseId, b.DatabaseId)
    ELSE IF I64Cmp(a.ObjectStoreId, b.ObjectStoreId) # 0
         THEN I64Cmp(a.ObjectStoreId, b.ObjectStoreId)
    ELSE I64Cmp(a.IndexId, b.IndexId)

\* what the body of Compare hands to its deferred function
PanicRet == [ret |-> 0, panic |-> TRUE]

Ret(r) == [ret |-> r, panic |-> FALSE]

\* "return ret" after a helper returned r
ReturnOf(r) == IF r.panic THEN PanicRet ELSE Ret(r.ret)

\* "if len(a) == 0 || len(b) == 0 { return cmp.Compare(len(a), len(b)) }"
ReturnLens(a, b) == Ret(CmpInt(Len(a), Len(b)))

\* compareDecodedVarInts with "less or equal" taken for "less"
compareDecodedVarIntsLE(da, db) ==
    IF da.panic \/ db.panic THEN PanicCmp
    ELSE CmpResult(da.rest, db.rest, IF I64Cmp(da.v, db.v) <= 0 THEN -1 ELSE 1)

\* cmp.Compare(idA, idB) once both varints are decoded
compareDecodedVarInts(da, db) ==
    IF da.panic \/ db.panic THEN PanicCmp
    ELSE CmpResult(da.rest, db.rest, I64Cmp(da.v, db.v))

\* "a, idA := decodeVarInt(a); b, idB := decodeVarInt(b); cmp.Compare(idA, idB)"
compareVarInt(a, b) == compareDecodedVarInts(decodeVarInt(a), decodeVarInt(b))

\* "if len(a) == 0 || len(b) == 0 {...}; return cmp.Compare(a[0], b[0])"
compareLastByte(a, b) ==
    IF EitherEmpty(a, b) THEN ReturnLens(a, b) ELSE Ret(CmpInt(a[1], b[1]))

\* the databaseNameTypeByte case after the origins were compared
compareDatabaseName(r) ==
    IF r.panic THEN PanicRet
    ELSE IF r.ret # 0 THEN Ret(r.ret)
    ELSE IF EitherEmpty(r.a, r.b) THEN ReturnLens(r.a, r.b)
    ELSE ReturnOf(compareStringWithLength(r.a, r.b))

\* the globalMetadata case after the type bytes were found equal
compareGlobalBody(typeByte, ra, rb) ==
    IF typeByte < maxSimpleGlobalMetaDataTypeByte THEN Ret(0)
    ELSE IF typeByte = scopesPrefixByte THEN Ret(BytesCompare(ra, rb))
    ELSE IF typeByte \notin {databaseFreeListTypeByte, databaseNameTypeByte} THEN PanicRet
    ELSE IF EitherEmpty(ra, rb) THEN ReturnLens(ra, rb)
    ELSE IF typeByte = databaseFreeListTypeByte THEN ReturnOf(compareVarInt(ra, rb))
    ELSE compareDatabaseName(compareStringWithLength(ra, rb))

\* the globalMetadata case of Compare
compareGlobalMetadata(a, b) ==
    IF EitherEmpty(a, b) THEN ReturnLens(a, b)
    ELSE IF a[1] # b[1] THEN Ret(CmpInt(a[1], b[1]))
    ELSE compareGlobalBody(a[1], Drop(a, 1), Drop(b, 1))

\* the indexMetaDataTypeByte and indexFreeListTypeByte cases after the index
\* ids were compared
compareAfterIndexId(typeByte, r) ==
    IF r.panic THEN PanicRet
    ELSE IF typeByte = indexFreeListTypeByte \/ r.ret # 0 THEN Ret(r.ret)
    ELSE compareLastByte(r.a, r.b)

\* the databaseMetadata cases that begin with an object store id, after the
\* ids were compared
compareAfterObjectStoreId(typeByte, r) ==
    IF r.panic THEN PanicRet
    ELSE IF typeByte = objectStoreFreeListTypeByte \/ r.ret # 0 THEN Ret(r.ret)
    ELSE IF typeByte = objectStoreMetaDataTypeByte THEN compareLastByte(r.a, r.b)
    ELSE IF EitherEmpty(r.a, r.b) THEN ReturnLens(r.a, r.b)
    ELSE IF typeByte = indexNamesKeyTypeByte
         THEN ReturnOf(compareStringWithLength(r.a, r.b))
    ELSE compareAfterIndexId(typeByte, compareVarInt(r.a, r.b))

\* the databaseMetadata case after the type bytes were found equal
compareDatabaseBody(typeByte, ra, rb) ==
    IF typeByte < maxSimpleDatabaseMetaDataTypeByte THEN Ret(0)
    ELSE IF typeByte \notin {objectStoreMetaDataTypeByte, indexMetaDataTypeByte,
                             objectStoreFreeListTypeByte, indexFreeListTypeByte,
                             objectStoreNamesTypeByte, indexNamesKeyTypeByte}
         THEN PanicRet
    ELSE IF EitherEmpty(ra, rb) THEN ReturnLens(ra, rb)
    ELSE IF typeByte = objectStoreNamesTypeByte
         THEN ReturnOf(compareStringWithLength(ra, rb))
    ELSE compareAfterObjectStoreId(typeByte, compareVarInt(ra, rb))

\* the databaseMetadata case of Compare
compareDatabaseMetadata(a, b) ==
    IF EitherEmpty(a, b) THEN ReturnLens(a, b)
    ELSE IF a[1] # b[1] THEN Ret(CmpInt(a[1], b[1]))
    ELSE compareDatabaseBody(a[1], Drop(a, 1), Drop(b, 1))

\* the objectStoreData, existsEntry and blobEntry cases of Compare
compareKeyBody(a, b) == ReturnOf(compareEncodedIDBKeys(a, b))

\* the sequence number of one side of the indexData case: -1 when the side
\* has no byte left, else the varint that follows
decodeSequenceNumber(a) ==
    IF Len(a) > 0 THEN decodeVarInt(a)
    ELSE [rest |-> a, v |-> U64Mask(64), panic |-> FALSE]

\* the end of the indexData case: r is what the comparison of the primary
\* keys returned, seqA and seqB are the sequence numbers
compareAfterPrimaryKey(r, seqA, seqB) ==
    IF r.panic THEN PanicRet
    ELSE IF r.ret # 0 THEN Ret(r.ret)
    ELSE Ret(I64Cmp(seqA, seqB))

\* compareAfterSequenceNumber without the return on an empty rest
compareAfterSequenceNumberOnly(sa, sb) ==
    IF sa.panic \/ sb.panic THEN PanicRet
    ELSE compareAfterPrimaryKey(compareEncodedIDBKeys(sa.rest, sb.rest), sa.v, sb.v)

\* the indexData case once the sequence numbers are decoded
compareAfterSequenceNumber(sa, sb) ==
    IF sa.panic \/ sb.panic THEN PanicRet
    ELSE IF EitherEmpty(sa.rest, sb.rest) THEN ReturnLens(sa.rest, sb.rest)
    ELSE compareAfterPrimaryKey(compareEncodedIDBKeys(sa.rest, sb.rest), sa.v, sb.v)

\* the indexData case after the encoded values were compared
compareAfterIndexValue(r) ==
    IF r.panic THEN PanicRet
    ELSE IF r.ret # 0 THEN Ret(r.ret)
    ELSE compareAfterSequenceNumber(decodeSequenceNumber(r.a), decodeSequenceNumber(r.b))

\* the indexData case of Compare
compareIndexData(a, b) == compareAfterIndexValue(compareEncodedIDBKeys(a, b))

\* the switch on prefixA.Type()
compareByType(t, a, b) ==
    IF t = globalMetadata THEN compareGlobalMetadata(a, b)
    ELSE IF t = databaseMetadata THEN compareDatabaseMetadata(a, b)
    ELSE IF t \in {objectStoreData, existsEntry, blobEntry} THEN compareKeyBody(a, b)
    ELSE IF t = indexData THEN compareIndexData(a, b)
    ELSE PanicRet

\* Compare once both key prefixes are decoded
compareDecoded(pa, pb) ==
    IF pa.panic \/ pb.panic THEN PanicRet
    ELSE IF compareKeyPrefix(pa.prefix, pb.prefix) # 0
         THEN Ret(compareKeyPrefix(pa.prefix, pb.prefix))
    ELSE compareByType(Type(pa.prefix), pa.rest, pb.rest)

\* the body of idbCmp1.Compare, before its deferred function runs
compareBody(a, b) == compareDecoded(decodeKeyPrefix(a), decodeKeyPrefix(b))

\* Compare without the deferred recover: the panic leaves the call
propagatePanic(r, a, b) == [ret |-> r.ret, crashed |-> r.panic, log |-> <<>>]

\* the deferred function of Compare: recover() stops a panic, the warning and
\* both keys go to standard error, and Compare returns the zero value
recoverPanic(r, a, b) ==
    IF r.panic
    THEN [ret |-> 0, crashed |-> FALSE, log |-> <<[a |-> a, b |-> b]>>]
    ELSE [ret |-> r.ret, crashed |-> FALSE, log |-> <<>>]

\* idbCmp1.Compare as its caller sees it
CompareCall(a, b) == recoverPanic(compareBody(a, b), a, b)

\* the ordering Compare returns
Compare(a, b) == CompareCall(a, b).ret

RECURSIVE encodedDepth(_, _)
RECURSIVE elementsDepth(_, _, _)
RECURSIVE elementsDepthNext(_, _)

\* how many calls of compareEncodedIDBKeys are on the stack at most while
\* compareEncodedIDBKeys(a, b) runs, this call included: only the array case
\* calls it again, once per pair of elements it reaches
encodedDepth(a, b) ==
    IF EitherEmpty(a, b) THEN 1
    ELSE IF keyTypeByteToKeyType(a[1]) # keyTypeByteToKeyType(b[1]) THEN 1
    ELSE IF a[1] # indexedDBKeyArrayTypeByte THEN 1
    ELSE IF EitherEmpty(Drop(a, 1), Drop(b, 1)) THEN 1
    ELSE IF decodeVarInt(Drop(a, 1)).panic \/ decodeVarInt(Drop(b, 1)).panic THEN 1
    ELSE 1 + elementsDepth(decodeVarInt(Drop(a, 1)).rest, decodeVarInt(Drop(b, 1)).rest,
                           U64CapNat(MinI64(decodeVarInt(Drop(a, 1)).v,
                                            decodeVarInt(Drop(b, 1)).v),
                                     MinNat(Len(a), Len(b))))

\* the same for the loop of the array case with n iterations left
elementsDepth(a, b, n) ==
    IF n = 0 \/ EitherEmpty(a, b) THEN 0
    ELSE MaxNat(encodedDepth(a, b), elementsDepthNext(compareEncodedIDBKeys(a, b), n))

\* the iterations after one whose comparison returned r
elementsDepthNext(r, n) ==
    IF r.panic \/ r.ret # 0 THEN 0 ELSE elementsDepth(r.a, r.b, n - 1)

\* the second call of the indexData case, made when both sides have bytes
\* left after their sequence numbers
primaryKeyDepth(sa, sb) ==
    IF sa.panic \/ sb.panic \/ EitherEmpty(sa.rest, sb.rest) THEN 0
    ELSE encodedDepth(sa.rest, sb.rest)

\* the calls of the indexData case after the index values were compared
indexDataDepthNext(r) ==
    IF r.panic \/ r.ret # 0 THEN 0
    ELSE primaryKeyDepth(decodeSequenceNumber(r.a), decodeSequenceNumber(r.b))

\* the depth the calls of compareEncodedIDBKeys reach in Compare once both
\* key prefixes are decoded
recursionDepthDecoded(pa, pb) ==
    IF pa.panic \/ pb.panic THEN 0
    ELSE IF compareKeyPrefix(pa.prefix, pb.prefix) # 0 THEN 0
    ELSE IF Type(pa.prefix) \in {objectStoreData, existsEntry, blobEntry}
         THEN encodedDepth(pa.rest, pb.rest)
    ELSE IF Type(pa.prefix) = indexData
         THEN MaxNat(encodedDepth(pa.rest, pb.rest),
                     indexDataDepthNext(compareEncodedIDBKeys(pa.rest, pb.rest)))
    ELSE 0

\* the depth of the recursion of Compare(a, b) on nested arrays
recursionDepth(a, b) == recursionDepthDecoded(decodeKeyPrefix(a), decodeKeyPrefix(b))

(***************************************************************************)
(* indexeddb/prefix.go: the prefix-range engine                            *)
(*                                                                         *)
(* A prefixComponent is modelled by its name; the variadic list of "next"  *)
(* components is a sequence of names, and prefixComponent(c, prefix, nexts)*)
(* is the call c(prefix, nexts...).  A nil slice is the empty sequence:    *)
(* the code only ever asks for len() of the tails it gets back.            *)
(***************************************************************************)

\* succBytes that keeps the length: the bytes after the incremented one become 0
succBytesPadded(b) ==
    LET low == {i \in 1..Len(b) : b[i] < 255}
    IN  IF low = {} THEN <<>>
        ELSE LET m == CHOOSE i \in low : \A j \in low : j <= i
             IN  [i \in 1..Len(b) |-> IF i < m THEN b[i] ELSE IF i = m THEN b[m] + 1 ELSE 0]

\* succBytes: nil when no byte is below 0xff
succBytes(b) ==
    LET low == {i \in 1..Len(b) : b[i] < 255}
    IN  IF low = {} THEN <<>>
        ELSE LET m == CHOOSE i \in low : \A j \in low : j <= i
             IN  Append(Take(b, m - 1), b[m] + 1)

\* what a component returns: startTail, limitTail, and whether it panicked
Tails(s, l) == [start |-> s, limit |-> l, panic |-> FALSE]

NoTails == Tails(<<>>, <<>>)

PanicTails == [start |-> <<>>, limit |-> <<>>, panic |-> TRUE]

\* composeTails that keeps the limit of this level whatever came from deeper
composeTailsOwnLimit(start, tail, ownLimit) ==
    IF tail.panic THEN PanicTails
    ELSE Tails(start \o tail.start, ownLimit)

\* the closing lines every component shares: with a limit from the deeper
\* level the limit is this level's start bytes and that limit, else it is
\* this level's own limit
composeTails(start, tail, ownLimit) ==
    IF tail.panic THEN PanicTails
    ELSE IF Len(tail.limit) > 0 THEN Tails(start \o tail.start, start \o tail.limit)
    ELSE Tails(start \o tail.start, ownLimit)

validVarInt(prefix) == \E i \in 1..MinNat(Len(prefix), 9) : prefix[i] < 128

\* the n bytes encodeVarInt writes: 7-bit groups, low group first, the
\* continuation bit on all but the last
encodeVarIntGroups(x, n) ==
    [j \in 1..n |-> IF j < n THEN U64Field(x, 7 * (j - 1), 7) + 128
                    ELSE U64Field(x, 7 * (j - 1), 7)]

\* encodeVarInt: at most 9 groups (a value of 2^63 or more makes the code
\* panic; no caller passes one)
encodeVarInt(x) == encodeVarIntGroups(x, MaxNat(1, (U64BitLen(x) + 6) \div 7))

\* what the loop of prefixVarInt leaves, e being where a varint ends among
\* the first n = min(len, 9) bytes (0: nowhere): the least and the greatest
\* value a varint starting with the bytes can have, the number of bytes read,
\* and whether the ninth byte still had the continuation bit
scanVarIntAt(prefix, e, n) ==
    IF e # 0
    THEN [minv |-> varIntValue(prefix, e), maxv |-> varIntValue(prefix, e),
          i |-> e, bad |-> FALSE]
    ELSE IF n = 9
    THEN [minv |-> varIntValue(prefix, 9), maxv |-> varIntValue(prefix, 9),
          i |-> 9, bad |-> TRUE]
    ELSE IF n = 0
    THEN [minv |-> U64Zero, maxv |-> MaxInt64, i |-> 0, bad |-> FALSE]
    ELSE [minv |-> U64Or(U64Shl(U64FromNat(128), 7 * (n - 1)), varIntValue(prefix, n)),
          maxv |-> U64Or(U64AndNot(MaxInt64, U64Mask(7 * n)), varIntValue(prefix, n)),
          i |-> n, bad |-> FALSE]

scanVarInt(prefix) == scanVarIntAt(prefix, varIntEnd(prefix), MinNat(Len(prefix), 9))

RECURSIVE prefixComponent(_, _, _)
RECURSIVE callNext(_, _)
RECURSIVE prefixByte(_, _)
RECURSIVE prefixVarIntScanned(_, _, _)
RECURSIVE prefixVarInt(_, _)
RECURSIVE prefixLengthPrefixed(_, _, _, _)
RECURSIVE prefixDecodedLength(_, _, _)
RECURSIVE prefixBinary(_, _)
RECURSIVE prefixStringWithLength(_, _)
RECURSIVE prefixDouble(_, _)
RECURSIVE prefixArrayCount(_, _, _)
RECURSIVE prefixArrayBody(_, _)
RECURSIVE prefixEncodedIDBKeys(_, _)

\* "startTail, limitTail = nexts[0](rest, nexts[1:]...)" under the guard
\* "len(rest) > 0 && len(nexts) > 0"; both tails stay nil otherwise
callNext(rest, nexts) ==
    IF Len(rest) > 0 /\ Len(nexts) > 0
    THEN prefixComponent(nexts[1], rest, Tail(nexts))
    ELSE NoTails

prefixByte(prefix, nexts) ==
    composeTails(<<prefix[1]>>, callNext(Drop(prefix, 1), nexts),
                 IF prefix[1] < 255 THEN <<prefix[1] + 1>> ELSE <<>>)

\* prefixVarInt that takes a ninth byte with the continuation bit for the end
prefixVarIntScannedAny(s, prefix, nexts) ==
    composeTails(encodeVarInt(s.minv), callNext(Drop(prefix, s.i), nexts),
                 IF U64Cmp(s.maxv, MaxInt64) < 0
                 THEN encodeVarInt(U64Inc(s.maxv)) ELSE <<>>)

\* prefixVarInt after its loop
prefixVarIntScanned(s, prefix, nexts) ==
    IF s.bad THEN NoTails
    ELSE composeTails(encodeVarInt(s.minv), callNext(Drop(prefix, s.i), nexts),
                      IF U64Cmp(s.maxv, MaxInt64) < 0
                      THEN encodeVarInt(U64Inc(s.maxv)) ELSE <<>>)

prefixVarInt(prefix, nexts) == prefixVarIntScanned(scanVarInt(prefix), prefix, nexts)

\* the limit of a length-prefixed payload: the length and the successor of
\* the payload bytes, else the next length, else none
payloadLimit(start, limitBody, v) ==
    IF limitBody # <<>> THEN start \o limitBody
    ELSE IF I64Cmp(v, MaxInt64) < 0 THEN encodeVarInt(U64Inc(v))
    ELSE <<>>

\* the return of prefixBinary and prefixStringWithLength: start is the encoded
\* length, body the payload bytes present, tail what the next component returned
prefixPayload(start, body, tail, v) ==
    composeTails(start \o body, tail, payloadLimit(start, succBytes(body), v))

\* the part prefixBinary and prefixStringWithLength share once the length is
\* decoded: rest follows the length, length is the payload length in bytes
\* and v the declared length
prefixLengthPrefixed(rest, nexts, length, v) ==
    IF U64Cmp(U64FromNat(Len(rest)), length) > 0
    THEN prefixPayload(encodeVarInt(v), Take(rest, U64ToNat(length)),
                       callNext(Drop(rest, U64ToNat(length)), nexts), v)
    ELSE prefixPayload(encodeVarInt(v), rest, NoTails, v)

\* d is the decoded length; shift 0 for a binary, 1 for a string
prefixDecodedLength(d, nexts, shift) ==
    prefixLengthPrefixed(d.rest, nexts, U64Shl(d.v, shift), d.v)

prefixBinary(prefix, nexts) ==
    IF ~validVarInt(prefix) THEN prefixVarInt(prefix, <<>>)
    ELSE prefixDecodedLength(decodeVarInt(prefix), nexts, 0)

prefixStringWithLength(prefix, nexts) ==
    IF ~validVarInt(prefix) THEN prefixVarInt(prefix, <<>>)
    ELSE prefixDecodedLength(decodeVarInt(prefix), nexts, 1)

\* prefixDouble that writes the double 0.0 in place of the 8 bytes it was given
prefixDoubleZeroed(prefix, nexts) ==
    IF Len(prefix) < 8 THEN NoTails
    ELSE composeTails(<<0, 0, 0, 0, 0, 0, 0, 0>>, callNext(Drop(prefix, 8), nexts), <<>>)

prefixDouble(prefix, nexts) ==
    IF Len(prefix) < 8 THEN NoTails
    ELSE composeTails(Take(prefix, 8), callNext(Drop(prefix, 8), nexts), <<>>)

\* the greatest length make([]prefixComponent, length) accepts: above
\* maxAlloc (2^48 bytes) / 8 bytes per element the runtime panics
MaxSliceLenBits == 45

\* "nexts = append(elements, nexts...)".  Each element takes at least one
\* byte of the prefix, so of the `length` element components at most
\* len(rest) are ever called; the model lists only those.
arrayComponents(length, rest, nexts) ==
    IF U64Cmp(length, U64FromNat(Len(rest))) > 0
    THEN [i \in 1..Len(rest) |-> "prefixEncodedIDBKeys"]
    ELSE [i \in 1..U64ToNat(length) |-> "prefixEncodedIDBKeys"] \o nexts

\* the array case once the element count is decoded
prefixArrayCount(length, rest, nexts) ==
    IF U64Cmp(length, U64Bit(MaxSliceLenBits)) > 0 THEN PanicTails
    ELSE prefixVarInt(rest, arrayComponents(length, rest, nexts))

\* the array case of prefixEncodedIDBKeys, after the tag byte
prefixArrayBody(rest, nexts) ==
    IF Len(rest) = 0 THEN NoTails
    ELSE IF ~validVarInt(rest) THEN prefixVarInt(rest, <<>>)
    ELSE prefixArrayCount(decodeVarInt(rest).v, rest, nexts)

prefixEncodedIDBKeys(prefix, nexts) ==
    CASE prefix[1] = indexedDBKeyNullTypeByte ->
           composeTails(<<indexedDBKeyNullTypeByte>>, callNext(Drop(prefix, 1), nexts),
                        <<indexedDBKeyArrayTypeByte>>)
      [] prefix[1] = indexedDBKeyArrayTypeByte ->
           composeTails(<<indexedDBKeyArrayTypeByte>>, prefixArrayBody(Drop(prefix, 1), nexts),
                        <<indexedDBKeyBinaryTypeByte>>)
      [] prefix[1] = indexedDBKeyBinaryTypeByte ->
           composeTails(<<indexedDBKeyBinaryTypeByte>>,
                        IF Len(prefix) > 1 THEN prefixBinary(Drop(prefix, 1), nexts)
                        ELSE NoTails,
                        <<indexedDBKeyStringTypeByte>>)
      [] prefix[1] = indexedDBKeyStringTypeByte ->
           composeTails(<<indexedDBKeyStringTypeByte>>,
                        IF Len(prefix) > 1 THEN prefixStringWithLength(Drop(prefix, 1), nexts)
                        ELSE NoTails,
                        <<indexedDBKeyDateTypeByte>>)
      [] prefix[1] = indexedDBKeyDateTypeByte ->
           composeTails(<<indexedDBKeyDateTypeByte>>,
                        IF Len(prefix) > 1 THEN prefixDouble(Drop(prefix, 1), nexts)
                        ELSE NoTails,
                        <<indexedDBKeyNumberTypeByte>>)
      [] prefix[1] = indexedDBKeyNumberTypeByte ->
           composeTails(<<indexedDBKeyNumberTypeByte>>,
                        IF Len(prefix) > 1 THEN prefixDouble(Drop(prefix, 1), nexts)
                        ELSE NoTails,
                        <<indexedDBKeyMinKeyTypeByte>>)
      [] prefix[1] = indexedDBKeyMinKeyTypeByte ->
           composeTails(<<indexedDBKeyMinKeyTypeByte>>, callNext(Drop(prefix, 1), nexts), <<>>)
      [] OTHER -> NoTails

\* the call c(prefix, nexts...) of the component named c
prefixComponent(c, prefix, nexts) ==
    CASE c = "prefixByte" -> prefixByte(prefix, nexts)
      [] c = "prefixVarInt" -> prefixVarInt(prefix, nexts)
      [] c = "prefixBinary" -> prefixBinary(prefix, nexts)
      [] c = "prefixStringWithLength" -> prefixStringWithLength(prefix, nexts)
      [] c = "prefixEncodedIDBKeys" -> prefixEncodedIDBKeys(prefix, nexts)

\* the components prefixKeyBody passes to prefixByte for a global metadata key
\* whose type byte is b
globalMetadataNexts(b) ==
    CASE b = databaseFreeListTypeByte -> <<"prefixVarInt">>
      [] b = databaseNameTypeByte -> <<"prefixStringWithLength", "prefixStringWithLength">>
      [] OTHER -> <<>>

\* the same for a database metadata key
databaseMetadataNexts(b) ==
    CASE b = objectStoreMetaDataTypeByte -> <<"prefixVarInt", "prefixByte">>
      [] b = indexMetaDataTypeByte -> <<"prefixVarInt", "prefixVarInt", "prefixByte">>
      [] b = objectStoreFreeListTypeByte -> <<"prefixVarInt">>
      [] b = indexFreeListTypeByte -> <<"prefixVarInt", "prefixVarInt">>
      [] b = objectStoreNamesTypeByte -> <<"prefixStringWithLength">>
      [] b = indexNamesKeyTypeByte -> <<"prefixVarInt", "prefixStringWithLength">>
      [] OTHER -> <<>>

\* the switch of prefixKeyBody on k.Type(), t being that type
prefixBodyOfType(prefix, t) ==
    IF t = globalMetadata /\ prefix[1] = scopesPrefixByte
    THEN Tails(prefix, succBytes(prefix))
    ELSE IF t \in {globalMetadata, databaseMetadata}
    THEN prefixByte(prefix, IF t = globalMetadata THEN globalMetadataNexts(prefix[1])
                            ELSE databaseMetadataNexts(prefix[1]))
    ELSE IF t \in {objectStoreData, existsEntry, blobEntry, indexData}
    THEN prefixEncodedIDBKeys(prefix, <<>>)
    ELSE NoTails

prefixKeyBody(prefix, k) == prefixBodyOfType(prefix, Type(k))

\* a *keyPrefix that may be nil: the empty sequence, or <<k>>
NilKeyPrefix == <<>>

\* the low 32 bits of the word: uint32(x)
U64Low32(x) == U64AndNot(x, U64Shl(U64Mask(64), 32))

\* the header byte and the three ids in dn, on and in bytes
encodeKeyPrefixBytes(d, o, i, dn, on, in) ==
    <<((dn - 1) * 32 + (on - 1) * 4 + (in - 1)) % 256>>
      \o U64ToBytes(d, dn) \o U64ToBytes(o, on) \o U64ToBytes(i, in)

\* minimalBytes that rounds the bit length down to whole bytes
minimalBytesFloor(x) == MaxNat(U64BitLen(x) \div 8, 1)

\* max((bits.Len64(x)+7)/8, 1)
minimalBytes(x) == MaxNat((U64BitLen(x) + 7) \div 8, 1)

\* encodeKeyPrefix of a triple that is not nil (the index id through uint32)
encodeKeyPrefixOf(k) ==
    encodeKeyPrefixBytes(k.DatabaseId, k.ObjectStoreId, U64Low32(k.IndexId),
                         minimalBytes(k.DatabaseId), minimalBytes(k.ObjectStoreId),
                         minimalBytes(U64Low32(k.IndexId)))

\* encodeKeyPrefix: nil for nil; else the header byte and the three ids at
\* their minimal widths
encodeKeyPrefix(opt) == IF opt = NilKeyPrefix THEN <<>> ELSE encodeKeyPrefixOf(opt[1])

\* succKeyPrefix that increments the index id without looking for overflow
succKeyPrefixNoCarry(k) == <<KeyPrefix(k.DatabaseId, k.ObjectStoreId, U64Inc(k.IndexId))>>

\* succKeyPrefix: nil when the three ids are at their maxima
succKeyPrefix(k) ==
    IF I64Cmp(k.IndexId, MaxUint32) < 0
    THEN <<KeyPrefix(k.DatabaseId, k.ObjectStoreId, U64Inc(k.IndexId))>>
    ELSE IF I64Cmp(k.ObjectStoreId, MaxInt64) < 0
    THEN <<KeyPrefix(k.DatabaseId, U64Inc(k.ObjectStoreId), U64Zero)>>
    ELSE IF I64Cmp(k.DatabaseId, MaxInt64) < 0
    THEN <<KeyPrefix(U64Inc(k.DatabaseId), U64Zero, U64Zero)>>
    ELSE NilKeyPrefix

\* partialBounds with min and max exchanged
partialBoundsSwapped(min1, max1, v, h) ==
    [min |-> U64Or(U64AndNot(max1, U64Mask(8 * h)), v), max |-> U64Or(min1, v)]

\* the bounds of an id field of width n of which the low bytes were given:
\* min1 and max1 are the bounds of the width, v the value of the bytes given
\* and h their number
partialBounds(min1, max1, v, h) ==
    [min |-> U64Or(min1, v), max |-> U64Or(U64AndNot(max1, U64Mask(8 * h)), v)]

\* partialField that does not clear the given low bytes of max before or-ing
partialFieldUnmasked(have, n, max0, capped) ==
    [min |-> IF Len(have) > 0
             THEN U64Or(IF n > 1 THEN U64Bit(8 * (n - 1)) ELSE U64Zero, decodeInt(have).v)
             ELSE IF n > 1 THEN U64Bit(8 * (n - 1)) ELSE U64Zero,
     max |-> IF capped /\ ~(n < 8) THEN max0 ELSE U64Mask(8 * n)]

\* one id field of prefixPartialKeyPrefix that is not wholly present: given
\* are its `have` low bytes (fewer than its width n); max0 is the value maxk
\* starts with and capped tells whether the "n < 8" guard applies to it
partialField(have, n, max0, capped) ==
    IF Len(have) > 0
    THEN partialBounds(IF n > 1 THEN U64Bit(8 * (n - 1)) ELSE U64Zero,
                       IF capped /\ ~(n < 8) THEN max0 ELSE U64Mask(8 * n),
                       decodeInt(have).v, Len(have))
    ELSE [min |-> IF n > 1 THEN U64Bit(8 * (n - 1)) ELSE U64Zero,
          max |-> IF capped /\ ~(n < 8) THEN max0 ELSE U64Mask(8 * n)]

\* one of the first two id fields of prefixPartialKeyPrefix: pinned when its
\* n bytes are all present, else bounded by partialField
leadingField(prefix, n) ==
    IF Len(prefix) >= n
    THEN [min |-> decodeInt(Take(prefix, n)).v, max |-> decodeInt(Take(prefix, n)).v,
          rest |-> Drop(prefix, n)]
    ELSE [min |-> partialField(prefix, n, MaxInt64, TRUE).min,
          max |-> partialField(prefix, n, MaxInt64, TRUE).max,
          rest |-> <<>>]

\* "return encodeKeyPrefix(mink), encodeKeyPrefix(succKeyPrefix(maxk))", from
\* the bounds d, o, i of the three ids
partialRange(d, o, i) ==
    Tails(encodeKeyPrefix(<<KeyPrefix(d.min, o.min, i.min)>>),
          encodeKeyPrefix(succKeyPrefix(KeyPrefix(d.max, o.max, i.max))))

\* prefixPartialKeyPrefix once the object store id is bounded
partialIndexId(prefix, d, o) ==
    partialRange(d, o, partialField(o.rest, indexIdBytes(prefix[1]), MaxUint32, FALSE))

\* prefixPartialKeyPrefix once the database id is bounded
partialObjectStoreId(prefix, d) ==
    partialIndexId(prefix, d, leadingField(d.rest, objectStoreIdBytes(prefix[1])))

prefixPartialKeyPrefix(prefix) ==
    partialObjectStoreId(prefix, leadingField(Drop(prefix, 1), databaseIdBytes(prefix[1])))

\* prefixKeyPrefix once the whole key prefix is decoded
prefixWholeKeyPrefix(d) ==
    composeTails(encodeKeyPrefix(<<d.prefix>>),
                 IF Len(d.rest) > 0 THEN prefixKeyBody(d.rest, d.prefix) ELSE NoTails,
                 encodeKeyPrefix(succKeyPrefix(d.prefix)))

prefixKeyPrefix(prefix) ==
    IF Len(prefix) < 1 + databaseIdBytes(prefix[1]) + objectStoreIdBytes(prefix[1])
                       + indexIdBytes(prefix[1])
    THEN prefixPartialKeyPrefix(prefix)
    ELSE prefixWholeKeyPrefix(decodeKeyPrefix(prefix))

\* the *util.Range the tails make; has marks a range that was returned,
\* hasLimit one whose Limit is set
RangeOf(r) ==
    [has |-> ~r.panic, Start |-> r.start, Limit |-> r.limit,
     hasLimit |-> ~r.panic /\ Len(r.limit) > 0, panic |-> r.panic]

\* Prefix: nil for the empty prefix
Prefix(prefix) ==
    IF Len(prefix) = 0
    THEN [has |-> FALSE, Start |-> <<>>, Limit |-> <<>>, hasLimit |-> FALSE, panic |-> FALSE]
    ELSE RangeOf(prefixKeyPrefix(prefix))

(***************************************************************************)
(* Slices and their storage                                                *)
(*                                                                         *)
(* The heap is a sequence of arrays of bytes, a slice the record of the    *)
(* array it points into (0 for nil), the offset of its first byte, its     *)
(* length and its capacity.                                                *)
(***************************************************************************)

NilSlice == [buf |-> 0, off |-> 0, len |-> 0, cap |-> 0]

\* the bytes the slice s holds
Bytes(heap, s) == IF s.buf = 0 THEN <<>> ELSE [i \in 1..s.len |-> heap[s.buf][s.off + i]]

\* a slice over a new array that holds bytes; nil when there are none
newSlice(heap, bytes) ==
    IF bytes = <<>> THEN [heap |-> heap, s |-> NilSlice]
    ELSE [heap |-> Append(heap, bytes),
          s |-> [buf |-> Len(heap) + 1, off |-> 0, len |-> Len(bytes), cap |-> Len(bytes)]]

\* s[lo:hi]
reslice(s, lo, hi) == [buf |-> s.buf, off |-> s.off + lo, len |-> hi - lo, cap |-> s.cap - lo]

\* s[:hi], which keeps the capacity of s
resliceKeepingCap(s, hi, max) == [s EXCEPT !.len = hi]

\* s[:hi:max]
resliceWithCap(s, hi, max) == [s EXCEPT !.len = hi, !.cap = max]

\* append(s, x): in place when the capacity allows, else into a new array
appendByte(heap, s, x) ==
    IF s.buf # 0 /\ s.len < s.cap
    THEN [heap |-> [heap EXCEPT ![s.buf][s.off + s.len + 1] = x], s |-> [s EXCEPT !.len = @ + 1]]
    ELSE newSlice(heap, Append(Bytes(heap, s), x))

\* the return statement of succBytes for the last byte m below 0xff
succBytesAppend(heap, b, bytes, low) ==
    IF low = {} THEN [heap |-> heap, s |-> NilSlice]
    ELSE LET m == CHOOSE i \in low : \A j \in low : j <= i
         IN  appendByte(heap, resliceWithCap(b, m - 1, m - 1), bytes[m] + 1)

\* succBytes on the slice b, bytes being what it holds
succBytesOf(heap, b, bytes) ==
    succBytesAppend(heap, b, bytes, {i \in 1..Len(bytes) : bytes[i] < 255})

\* succBytes on the slice b
succBytesOnSlice(heap, b) == succBytesOf(heap, b, Bytes(heap, b))

\* the payload prefixBinary or prefixStringWithLength passes to succBytes:
\* p is the slice of the prefix, n its length, remaining what follows the
\* decoded length, length the payload length in bytes
payloadSlice(p, n, remaining, length) ==
    reslice(p, n - Len(remaining),
            n - Len(remaining) + U64CapNat(length, Len(remaining)))

\* the part of the slice p that a key body of one value passes to succBytes:
\* the whole body of a scopes key, the payload of a binary or of a string,
\* nothing for another value; d is the decoded key prefix of the bytes pb of p
succBytesArgument(p, pb, d) ==
    IF Type(d.prefix) = globalMetadata
    THEN IF d.rest[1] = scopesPrefixByte
         THEN reslice(p, Len(pb) - Len(d.rest), Len(pb)) ELSE NilSlice
    ELSE IF /\ Type(d.prefix) \in {objectStoreData, existsEntry, blobEntry, indexData}
            /\ d.rest[1] \in {indexedDBKeyBinaryTypeByte, indexedDBKeyStringTypeByte}
            /\ Len(d.rest) > 1 /\ validVarInt(Drop(d.rest, 1))
    THEN payloadSlice(p, Len(pb), decodeVarInt(Drop(d.rest, 1)).rest,
                      U64Shl(decodeVarInt(Drop(d.rest, 1)).v,
                             IF d.rest[1] = indexedDBKeyStringTypeByte THEN 1 ELSE 0))
    ELSE NilSlice

\* the two slices prefixKeyPrefix returns for the tails t: slices.Concat and
\* encodeKeyPrefix allocate what they return
rangeOnHeap(heap, t) ==
    IF t.panic
    THEN [heap |-> heap, has |-> FALSE, Start |-> NilSlice, Limit |-> NilSlice, panic |-> TRUE]
    ELSE [heap |-> newSlice(newSlice(heap, t.start).heap, t.limit).heap,
          has |-> TRUE,
          Start |-> newSlice(heap, t.start).s,
          Limit |-> newSlice(newSlice(heap, t.start).heap, t.limit).s,
          panic |-> FALSE]

\* prefixKeyPrefix once the call of succBytes in the key body has returned sb
prefixAfterSucc(sb, p) == rangeOnHeap(sb.heap, prefixKeyPrefix(Bytes(sb.heap, p)))

\* prefixKeyPrefix on the slice p that holds pb, d being its decoded key prefix
prefixDecodedOnHeap(heap, p, pb, d) ==
    IF d.panic \/ Len(d.rest) = 0 THEN rangeOnHeap(heap, prefixKeyPrefix(pb))
    ELSE prefixAfterSucc(succBytesOnSlice(heap, succBytesArgument(p, pb, d)), p)

\* Prefix on the slice p that holds pb
prefixBytesOnHeap(heap, p, pb) ==
    IF Len(pb) = 0
    THEN [heap |-> heap, has |-> FALSE, Start |-> NilSlice, Limit |-> NilSlice, panic |-> FALSE]
    ELSE prefixDecodedOnHeap(heap, p, pb, decodeKeyPrefix(pb))

\* Prefix on the slice p
PrefixOnHeap(heap, p) == prefixBytesOnHeap(heap, p, Bytes(heap, p))

(***************************************************************************)
(* The files of a database directory                                       *)
(*                                                                         *)
(* A file name is a sequence of characters, a directory a function from    *)
(* the names of its entries to their kinds.                                *)
(***************************************************************************)

IsDigit(c) == c \in {"0", "1", "2", "3", "4", "5", "6", "7", "8", "9"}

RECURSIVE skipDigits(_, _)
\* the inner loop of matchPattern: j moves past the digits that follow
skipDigits(filename, j) ==
    IF j < Len(filename) /\ IsDigit(filename[j + 1]) THEN skipDigits(filename, j + 1) ELSE j

RECURSIVE matchPatternFrom(_, _, _, _)
\* the loop of matchPattern at the indexes i and j (from 0, as in the code)
\* and its return statement
matchPatternFrom(pattern, filename, i, j) ==
    IF i < Len(pattern) /\ j < Len(filename)
    THEN IF pattern[i + 1] = "*"
         THEN IF ~IsDigit(filename[j + 1]) THEN FALSE
              ELSE matchPatternFrom(pattern, filename, i + 1, skipDigits(filename, j + 1))
         ELSE IF pattern[i + 1] # filename[j + 1] THEN FALSE
         ELSE matchPatternFrom(pattern, filename, i + 1, j + 1)
    ELSE i = Len(pattern) /\ j = Len(filename)

matchPattern(pattern, filename) == matchPatternFrom(pattern, filename, 0, 0)

\* the patterns of isLevelDBFilename
patterns ==
    <<<<"L", "O", "C", "K">>,
      <<"L", "O", "G">>,
      <<"L", "O", "G", ".", "o", "l", "d">>,
      <<"C", "U", "R", "R", "E", "N", "T">>,
      <<"C", "U", "R", "R", "E", "N", "T", ".", "b", "a", "k">>,
      <<"C", "U", "R", "R", "E", "N", "T", ".", "*">>,
      <<"M", "A", "N", "I", "F", "E", "S", "T", "-", "*">>,
      <<"*", ".", "l", "d", "b">>,
      <<"*", ".", "l", "o", "g">>,
      <<"*", ".", "s", "s", "t">>,
      <<"*", ".", "t", "m", "p">>>>

isLevelDBFilename(filename) ==
    \E n \in 1..Len(patterns) : matchPattern(patterns[n], filename)

\* the nodes of a regular expression
Lit(s) == [t |-> "lit", s |-> s]

Digits == [t |-> "digits"]

Cat(xs) == [t |-> "cat", xs |-> xs]

Alt(xs) == [t |-> "alt", xs |-> xs]

Opt(x) == [t |-> "opt", xs |-> <<x>>]

\* \A(?:LOCK|LOG(?:\.old)?|CURRENT(?:\.bak|\.\d+)?|MANIFEST-\d+|\d+\.(?:ldb|log|sst|tmp))\z
ldbFilesPattern ==
    Alt(<<Lit(<<"L", "O", "C", "K">>),
          Cat(<<Lit(<<"L", "O", "G">>), Opt(Lit(<<".", "o", "l", "d">>))>>),
          Cat(<<Lit(<<"C", "U", "R", "R", "E", "N", "T">>), Opt(Alt(<<Lit(<<".", "b", "a", "k">>), Cat(<<Lit(<<".">>), Digits>>)>>))>>),
          Cat(<<Lit(<<"M", "A", "N", "I", "F", "E", "S", "T", "-">>), Digits>>),
          Cat(<<Digits, Lit(<<".">>),
                Alt(<<Lit(<<"l", "d", "b">>), Lit(<<"l", "o", "g">>), Lit(<<"s", "s", "t">>), Lit(<<"t", "m", "p">>)>>)>>)>>)

\* the positions where a \d+ that starts at position p of s can end, the
\* digits of the pattern being [0-9]
digitsEnds(s, p) ==
    { q \in (p + 1)..Len(s) : \A i \in (p + 1)..q : IsDigit(s[i]) }

\* the positions where the literal l that starts at a position of P can end
litEnds(l, s, P) ==
    { p + Len(l) : p \in { q \in P : q + Len(l) <= Len(s) /\ SubSeq(s, q + 1, q + Len(l)) = l } }

RECURSIVE regexpEnds(_, _, _)
RECURSIVE catEnds(_, _, _)
\* the positions of s where a match of the node n that starts at a position
\* of P can end
regexpEnds(n, s, P) ==
    CASE n.t = "lit" -> litEnds(n.s, s, P)
      [] n.t = "digits" -> UNION { digitsEnds(s, p) : p \in P }
      [] n.t = "opt" -> P \cup regexpEnds(n.xs[1], s, P)
      [] n.t = "alt" -> UNION { regexpEnds(n.xs[k], s, P) : k \in 1..Len(n.xs) }
      [] n.t = "cat" -> catEnds(n.xs, s, P)

catEnds(xs, s, P) ==
    IF Len(xs) = 0 THEN P ELSE catEnds(Tail(xs), s, regexpEnds(Head(xs), s, P))

\* ldbFilesPattern.MatchString(name): \A and \z tie the match to the whole name
MatchString(n, name) == Len(name) \in regexpEnds(n, name, {0})

(***************************************************************************)
(* The database commands                                                   *)
(*                                                                         *)
(* A database directory is the record of its entries (dir) and of the      *)
(* key/value entries its LevelDB files hold (entries, a function from keys *)
(* to values); the database is there when the directory has a CURRENT      *)
(* file.  An error is a string, "" for nil.                                *)
(***************************************************************************)

LockFile == <<"L", "O", "C", "K">>

LogFile == <<"L", "O", "G">>

CurrentFile == <<"C", "U", "R", "R", "E", "N", "T">>

ManifestFile == <<"M", "A", "N", "I", "F", "E", "S", "T", "-", "0", "0", "0", "0", "0", "0">>

JournalFile == <<"0", "0", "0", "0", "0", "1", ".", "l", "o", "g">>

\* filepath.Join(dbpath, "leveldb.bak"), within the directory
bakfile == <<"l", "e", "v", "e", "l", "d", "b", ".", "b", "a", "k">>

NoError == ""

ErrNotExist == "file does not exist"

ErrExist == "file already exists"

ErrNotFound == "leveldb: not found"

ErrCmdline == "command line error"

ErrDecode == "msgpack: cannot decode"

ErrNotEmpty == "directory not empty"

NoEntries == <<>>

\* the directory dir with a regular file called name, made when it is missing
withFile(dir, name) == IF name \in DOMAIN dir THEN dir ELSE dir @@ (name :> "regular")

\* the directory dir without the entry called name
withoutEntry(dir, name) == [n \in DOMAIN dir \ {name} |-> dir[n]]

\* the options of leveldb.OpenFile the commands set
Options(errorIfMissing, errorIfExist, readOnly) ==
    [ErrorIfMissing |-> errorIfMissing, ErrorIfExist |-> errorIfExist, ReadOnly |-> readOnly]

\* what opening the storage leaves in the directory: the LOCK file, and the
\* LOG file unless the database is opened read-only
storageFiles(dir, readOnly) ==
    IF readOnly THEN withFile(dir, LockFile) ELSE withFile(withFile(dir, LockFile), LogFile)

\* the files of a new database
createdFiles(dir) == withFile(withFile(withFile(dir, CurrentFile), ManifestFile), JournalFile)

\* leveldb.OpenFile(dbpath, opts) on the database s: the error, the directory
\* afterwards and the entries of the open database
OpenFile(s, opts) ==
    IF CurrentFile \notin DOMAIN s.dir
    THEN IF opts.ErrorIfMissing \/ opts.ReadOnly
         THEN [err |-> ErrNotExist, dir |-> storageFiles(s.dir, opts.ReadOnly), entries |-> NoEntries]
         ELSE [err |-> NoError, dir |-> createdFiles(storageFiles(s.dir, opts.ReadOnly)),
               entries |-> NoEntries]
    ELSE IF opts.ErrorIfExist
         THEN [err |-> ErrExist, dir |-> storageFiles(s.dir, opts.ReadOnly), entries |-> s.entries]
         ELSE [err |-> NoError, dir |-> storageFiles(s.dir, opts.ReadOnly), entries |-> s.entries]

\* what a command returns: the error, the directory and the entries of the
\* database afterwards, and what it wrote to standard output
Outcome(err, dir, entries, stdout) ==
    [err |-> err, dir |-> dir, entries |-> entries, stdout |-> stdout]

RECURSIVE LexCompare(_, _)
\* bytes.Compare, the default comparer
LexCompare(a, b) ==
    IF Len(a) = 0 \/ Len(b) = 0
    THEN IF Len(a) = Len(b) THEN 0 ELSE IF Len(a) = 0 THEN -1 ELSE 1
    ELSE IF a[1] # b[1] THEN IF a[1] < b[1] THEN -1 ELSE 1
    ELSE LexCompare(Tail(a), Tail(b))

\* the keys the commands put, delete and bound their ranges with: object-store
\* data keys of database 1, object store 1, for null, the least key and a binary
CommandKeys == { <<0, 1, 1, 1>> \o v : v \in { <<0>>, <<5>>, <<6, 1, 255>> } }

\* indexeddb.Comparer, on the keys of the commands
Comparer == [a \in CommandKeys |-> [b \in CommandKeys |-> Compare(a, b)]]

\* GetComparer(): idb_cmp1 under --indexeddb, else the default comparer
compareKeys(indexedDB, a, b) == IF indexedDB THEN Comparer[a][b] ELSE LexCompare(a, b)

\* no key range
NoRange == [hasStart |-> FALSE, Start |-> <<>>, hasLimit |-> FALSE, Limit |-> <<>>]

\* whether the iterator over the range r passes the key k
inKeyRange(indexedDB, r, k) ==
    /\ r.hasStart => compareKeys(indexedDB, r.Start, k) <= 0
    /\ r.hasLimit => compareKeys(indexedDB, k, r.Limit) < 0

\* the first of the keys K in the order of the comparer
firstKey(indexedDB, K) ==
    CHOOSE k \in K : \A j \in K : compareKeys(indexedDB, k, j) <= 0

RECURSIVE iterate(_, _, _)
RECURSIVE iterateFrom(_, _, _, _)
\* the entries the iterator yields for the keys K of the database: in the
\* order of the comparer
iterate(indexedDB, entries, K) ==
    IF K = {} THEN <<>> ELSE iterateFrom(indexedDB, entries, K, firstKey(indexedDB, K))

\* the same, k being the first of the keys K
iterateFrom(indexedDB, entries, K, k) ==
    <<[Key |-> k, Value |-> entries[k]]>> \o iterate(indexedDB, entries, K \ {k})

\* the loop of OpenDB over an iterator that takes no key range
visitedWholeDatabase(cmd, entries) == iterate(cmd.IndexedDB, entries, DOMAIN entries)

\* the loop of OpenDB over the snapshot: what visit is called with
visited(cmd, entries) ==
    iterate(cmd.IndexedDB, entries,
            { k \in DOMAIN entries : inKeyRange(cmd.IndexedDB, cmd.KeyRange, k) })

\* what visit and after make of the open database: the error of after, the
\* entries written and the output
Done(err, entries, stdout) == [err |-> err, entries |-> entries, stdout |-> stdout]

\* a function literal handed to OpenDB: the command that makes it and the
\* variables it captures
Func(fn, captured) == [fn |-> fn, captured |-> captured]

\* neither visit nor after
nothingAfter(entries, seen) == Done(NoError, entries, <<>>)

\* the after function of GetCommand.Run: key is the parsed first argument
getAfter(cmd, entries, seen) ==
    IF cmd.key \in DOMAIN entries
    THEN Done(NoError, entries, <<entries[cmd.key]>>)
    ELSE Done(ErrNotFound, entries, <<>>)

\* the entries once key holds value
putEntry(entries, key, value) ==
    [k \in DOMAIN entries \cup {key} |-> IF k = key THEN value ELSE entries[k]]

\* the after function of PutCommand.Run
putAfter(cmd, entries, seen) == Done(NoError, putEntry(entries, cmd.key, cmd.value), <<>>)

\* the entries visit of DeleteCommand.Run does not pass over: those for
\* which the matcher (every key when no key is given) and --invert-match differ
deleteMatched(cmd, seen) ==
    LET Match(e) == (Len(cmd.args) = 0 \/ e.Key = cmd.key) # cmd.Invert
    IN  SelectSeq(seen, Match)

\* the keys visit puts in the batch
deleteBatch(cmd, seen) ==
    { deleteMatched(cmd, seen)[n].Key : n \in 1..Len(deleteMatched(cmd, seen)) }

\* visit and after of DeleteCommand.Run without the tests of cmd.DryRun
deleteAfterWriting(cmd, entries, seen) ==
    Done(NoError, [k \in DOMAIN entries \ deleteBatch(cmd, seen) |-> entries[k]], <<>>)

\* visit and after of DeleteCommand.Run: the lines of the dry run, or the
\* write of the batch
deleteAfter(cmd, entries, seen) ==
    IF cmd.DryRun
    THEN Done(NoError, entries,
              [n \in 1..Len(deleteMatched(cmd, seen)) |-> deleteMatched(cmd, seen)[n].Key])
    ELSE Done(NoError, [k \in DOMAIN entries \ deleteBatch(cmd, seen) |-> entries[k]], <<>>)

\* visit of KeysCommand.Run: a line for each key
keysAfter(entries, seen) == Done(NoError, entries, [n \in 1..Len(seen) |-> seen[n].Key])

\* visit of ShowCommand.Run: a line for each entry
showAfter(entries, seen) == Done(NoError, entries, seen)

\* n in k bytes, the high byte first
BigEndian(n, k) == [i \in 1..k |-> (n \div (256 ^ (k - i))) % 256]

\* encoder.EncodeMapLen(n): fixmap, map 16 or map 32
EncodeMapLen(n) ==
    IF n < 16 THEN <<128 + n>>
    ELSE IF n < 65536 THEN <<222>> \o BigEndian(n, 2)
    ELSE <<223>> \o BigEndian(n, 4)

\* a []byte of the program: its bytes, and whether it is the nil slice
Slice(b, isNil) == [b |-> b, isNil |-> isNil]

\* whether the slice the iterator hands out for the n-th of the fields it
\* yields is nil: the iterator of goleveldb copies every key and value into a
\* buffer of its own with append(buf[:0], ...), and the buffer is nil until
\* bytes have been copied into it
iteratorNil(fields, n) == \A m \in 1..n : fields[m] = <<>>

\* the entries visit of DumpDB collects: bytes.Clone of the key and of the
\* value the iterator is at, and bytes.Clone(nil) is nil
dumpEntries(seen) ==
    [n \in 1..Len(seen) |->
        [Key |-> Slice(seen[n].Key, iteratorNil([m \in 1..Len(seen) |-> seen[m].Key], n)),
         Value |-> Slice(seen[n].Value, iteratorNil([m \in 1..Len(seen) |-> seen[m].Value], n))]]

\* encoder.EncodeBytes(v): nil for the nil slice, else bin 8, bin 16 or bin 32
EncodeBytes(v) ==
    IF v.isNil THEN <<192>>
    ELSE IF Len(v.b) < 256 THEN <<196, Len(v.b)>> \o v.b
    ELSE IF Len(v.b) < 65536 THEN <<197>> \o BigEndian(Len(v.b), 2) \o v.b
    ELSE <<198>> \o BigEndian(Len(v.b), 4) \o v.b

RECURSIVE encodeEntries(_)
\* the loop of DumpDB over the entries it collected
encodeEntries(seen) ==
    IF Len(seen) = 0 THEN <<>>
    ELSE EncodeBytes(seen[1].Key) \o EncodeBytes(seen[1].Value) \o encodeEntries(Tail(seen))

\* the after function of DumpDB: the map header, then every key and value
dumped(entries, seen) ==
    Done(NoError, entries, EncodeMapLen(Len(seen)) \o encodeEntries(dumpEntries(seen)))

RECURSIVE writeBatch(_, _)
\* db.Write(batch): the puts in their order
writeBatch(entries, batch) ==
    IF Len(batch) = 0 THEN entries
    ELSE writeBatch(putEntry(entries, batch[1].Key, batch[1].Value), Tail(batch))

\* the after function of LoadDB
loadAfter(batch, entries, seen) == Done(NoError, writeBatch(entries, batch), <<>>)

\* the call of the functions f stands for, on the entries of the open
\* database and the entries the iterator passed
called(f, entries, seen) ==
    CASE f.fn = "init" -> nothingAfter(entries, seen)
      [] f.fn = "get" -> getAfter(f.captured, entries, seen)
      [] f.fn = "put" -> putAfter(f.captured, entries, seen)
      [] f.fn = "delete" -> deleteAfter(f.captured, entries, seen)
      [] f.fn = "keys" -> keysAfter(entries, seen)
      [] f.fn = "show" -> showAfter(entries, seen)
      [] f.fn = "dump" -> dumped(entries, seen)
      [] f.fn = "load" -> loadAfter(f.captured, entries, seen)

\* the return of OpenDB once after returned a
closedDB(o, a) == Outcome(a.err, o.dir, a.entries, a.stdout)

\* OpenDB once the database is open (o): visit and after run on the entries
\* visited and return the error, the entries of the database and the output
openedDB(cmd, o, f) ==
    IF o.err # NoError THEN Outcome(o.err, o.dir, o.entries, <<>>)
    ELSE closedDB(o, called(f, o.entries, visited(cmd, o.entries)))

\* OpenDB(cmd, opts, visit, after) on the database s, f standing for visit
\* and after
OpenDB(cmd, s, opts, f) == openedDB(cmd, OpenFile(s, opts), f)

\* InitCommand.Run without ErrorIfExist
InitRunOpening(cmd, s) == OpenDB(cmd, s, Options(FALSE, FALSE, FALSE), Func("init", cmd))

\* InitCommand.Run
InitRun(cmd, s) == OpenDB(cmd, s, Options(FALSE, TRUE, FALSE), Func("init", cmd))

\* GetCommand.Run: <<>> of args is no argument
GetRun(cmd, s) ==
    IF Len(cmd.args) = 0 THEN Outcome(ErrCmdline, s.dir, s.entries, <<>>)
    ELSE OpenDB(cmd, s, Options(TRUE, FALSE, TRUE), Func("get", cmd))

\* PutCommand.Run without ErrorIfMissing
PutRunCreating(cmd, s) ==
    IF Len(cmd.args) = 0 THEN Outcome(ErrCmdline, s.dir, s.entries, <<>>)
    ELSE OpenDB(cmd, s, Options(FALSE, FALSE, FALSE), Func("put", cmd))

\* PutCommand.Run
PutRun(cmd, s) ==
    IF Len(cmd.args) = 0 THEN Outcome(ErrCmdline, s.dir, s.entries, <<>>)
    ELSE OpenDB(cmd, s, Options(TRUE, FALSE, FALSE), Func("put", cmd))

\* DeleteCommand.Run with literal keys
DeleteRun(cmd, s) ==
    IF Len(cmd.args) = 0 /\ cmd.KeyRange = NoRange
    THEN Outcome(ErrCmdline, s.dir, s.entries, <<>>)
    ELSE OpenDB(cmd, s, Options(TRUE, FALSE, cmd.DryRun), Func("delete", cmd))

\* KeysCommand.Run
KeysRun(cmd, s) == OpenDB(cmd, s, Options(TRUE, FALSE, TRUE), Func("keys", cmd))

\* ShowCommand.Run
ShowRun(cmd, s) == OpenDB(cmd, s, Options(TRUE, FALSE, TRUE), Func("show", cmd))

\* DumpDB(cmd, w): what is written to w is the output
DumpDB(cmd, s) == OpenDB(cmd, s, Options(TRUE, FALSE, TRUE), Func("dump", cmd))

\* the value of the bytes b, the high byte first
RECURSIVE FromBigEndian(_)
FromBigEndian(b) == IF Len(b) = 0 THEN 0 ELSE FromBigEndian(Take(b, Len(b) - 1)) * 256 + b[Len(b)]

\* what a decoder call returns: the error, the value and the bytes left
Reading(err, v, rest) == [err |-> err, v |-> v, rest |-> rest]

\* the k bytes of a length after the code byte, then the rest
lengthField(b, k) ==
    IF Len(b) < 1 + k THEN Reading(ErrDecode, 0, <<>>)
    ELSE Reading(NoError, FromBigEndian(SubSeq(b, 2, 1 + k)), Drop(b, 1 + k))

\* decoder.DecodeMapLen(): -1 for nil
DecodeMapLen(b) ==
    IF Len(b) = 0 THEN Reading(ErrDecode, 0, <<>>)
    ELSE IF b[1] = 192 THEN Reading(NoError, -1, Tail(b))
    ELSE IF b[1] \in 128..143 THEN Reading(NoError, b[1] - 128, Tail(b))
    ELSE IF b[1] = 222 THEN lengthField(b, 2)
    ELSE IF b[1] = 223 THEN lengthField(b, 4)
    ELSE Reading(ErrDecode, 0, <<>>)

\* the length DecodeBytes reads: of a bin or of a str
bytesLen(b) ==
    IF Len(b) = 0 THEN Reading(ErrDecode, 0, <<>>)
    ELSE IF b[1] = 192 THEN Reading(NoError, 0, Tail(b))
    ELSE IF b[1] \in 160..191 THEN Reading(NoError, b[1] - 160, Tail(b))
    ELSE IF b[1] \in {196, 217} THEN lengthField(b, 1)
    ELSE IF b[1] \in {197, 218} THEN lengthField(b, 2)
    ELSE IF b[1] \in {198, 219} THEN lengthField(b, 4)
    ELSE Reading(ErrDecode, 0, <<>>)

\* DecodeBytes once the length is read
bytesOfLen(l) ==
    IF l.err # NoError \/ Len(l.rest) < l.v THEN Reading(ErrDecode, <<>>, <<>>)
    ELSE Reading(NoError, Take(l.rest, l.v), Drop(l.rest, l.v))

\* decoder.DecodeBytes()
DecodeBytes(b) == bytesOfLen(bytesLen(b))

RECURSIVE decodeEntries(_, _, _)
\* the loop of LoadDB: n entries are still to be read from b, batch holds
\* the ones read; the value is the batch
decodeEntries(b, n, batch) ==
    IF n <= 0 THEN Reading(NoError, batch, b)
    ELSE IF DecodeBytes(b).err # NoError \/ DecodeBytes(DecodeBytes(b).rest).err # NoError
    THEN Reading(ErrDecode, batch, <<>>)
    ELSE decodeEntries(DecodeBytes(DecodeBytes(b).rest).rest, n - 1,
                       Append(batch, [Key |-> DecodeBytes(b).v,
                                      Value |-> DecodeBytes(DecodeBytes(b).rest).v]))

\* LoadDB up to the call of OpenDB: the batch of the input r
decodeBatch(r) ==
    IF DecodeMapLen(r).err # NoError THEN Reading(ErrDecode, <<>>, <<>>)
    ELSE decodeEntries(DecodeMapLen(r).rest, DecodeMapLen(r).v, <<>>)

\* LoadDB once the input is decoded (d)
loadDecoded(cmd, s, d) ==
    IF d.err # NoError THEN Outcome(d.err, s.dir, s.entries, <<>>)
    ELSE OpenDB(cmd, s, Options(FALSE, FALSE, FALSE), Func("load", d.v))

\* LoadDB(cmd, r)
LoadDB(cmd, s, r) == loadDecoded(cmd, s, decodeBatch(r))

\* the entries of the database that the files of dir hold: none without CURRENT
entriesIn(dir, entries) == IF CurrentFile \in DOMAIN dir THEN entries ELSE NoEntries

\* the test of DestroyDB without the check for a regular file
removesAnyMatching(dir, name) == MatchString(ldbFilesPattern, name)

\* the test DestroyDB makes of the entry name of the directory dir
removes(dir, name) == dir[name] = "regular" /\ MatchString(ldbFilesPattern, name)

\* the directory once the loop of DestroyDB has removed what it removes
removeAll(dir) == [n \in { m \in DOMAIN dir : ~removes(dir, m) } |-> dir[n]]

\* the lines the dry run prints
wouldRemove(dir) == { n \in DOMAIN dir : removes(dir, n) }

\* DestroyDB(cmd, dryRun) of the command
DestroyDB(cmd, s, dryRun) ==
    IF dryRun THEN Outcome(NoError, s.dir, s.entries, wouldRemove(s.dir))
    ELSE Outcome(NoError, removeAll(s.dir), entriesIn(removeAll(s.dir), s.entries), {})

RECURSIVE removeInOrder(_, _)
\* the loop of DestroyDB(dbpath) of the package over the names Readdirnames
\* returned: os.Remove on every name that matches, whatever the entry is; it
\* fails on a directory that is not empty, and the loop ends there
removeInOrder(dir, names) ==
    IF Len(names) = 0 THEN [err |-> NoError, dir |-> dir]
    ELSE IF ~isLevelDBFilename(names[1]) THEN removeInOrder(dir, Tail(names))
    ELSE IF dir[names[1]] = "full directory" THEN [err |-> ErrNotEmpty, dir |-> dir]
    ELSE removeInOrder(withoutEntry(dir, names[1]), Tail(names))

\* DestroyDB(dbpath) of the package, names being what Readdirnames returned
DestroyDBPath(s, names) ==
    Outcome(removeInOrder(s.dir, names).err, removeInOrder(s.dir, names).dir,
            entriesIn(removeInOrder(s.dir, names).dir, s.entries), {})

\* the database after a command returned o
databaseAfter(s, o) == [s EXCEPT !.dir = o.dir, !.entries = o.entries]

\* CompactCommand.Run that returns after LoadDB at once
compactLoadedKeepingBackup(l) == l

\* CompactCommand.Run after LoadDB returned l: the backup is removed
compactLoaded(l) ==
    IF l.err # NoError THEN l
    ELSE Outcome(NoError, withoutEntry(l.dir, bakfile), l.entries, <<>>)

\* CompactCommand.Run after DumpDB returned d into the backup
compactDumped(cmd, s, d) ==
    IF d.err # NoError THEN Outcome(d.err, withoutEntry(d.dir, bakfile), d.entries, <<>>)
    ELSE compactLoaded(LoadDB(cmd, databaseAfter(s, DestroyDB(cmd, databaseAfter(s, d), FALSE)), d.stdout))

\* CompactCommand.Run
CompactRun(cmd, s) ==
    IF bakfile \in DOMAIN s.dir THEN Outcome(ErrExist, s.dir, s.entries, <<>>)
    ELSE compactDumped(cmd, s, DumpDB(cmd, [s EXCEPT !.dir = withFile(@, bakfile)]))

\* the subcommand cmd.name on the database s
subcommandRun(cmd, s) ==
    CASE cmd.name = "init" -> InitRun(cmd, s)
      [] cmd.name = "get" -> GetRun(cmd, s)
      [] cmd.name = "put" -> PutRun(cmd, s)
      [] cmd.name = "delete" -> DeleteRun(cmd, s)
      [] cmd.name = "keys" -> KeysRun(cmd, s)
      [] cmd.name = "show" -> ShowRun(cmd, s)
      [] cmd.name = "dump" -> DumpDB(cmd, s)
      [] cmd.name = "load" -> LoadDB(cmd, s, cmd.input)
      [] cmd.name = "compact" -> CompactRun(cmd, s)
      [] cmd.name = "destroy" -> DestroyDB(cmd, s, cmd.DryRun)

\* the deferred os.Remove(lockfile) of RootCommand.Run: o is what the
\* subcommand returned, hadLock whether there was a LOCK file before
lockRemoved(o, hadLock) == IF hadLock THEN o ELSE [o EXCEPT !.dir = withoutEntry(@, LockFile)]

\* RootCommand.Run with the subcommand cmd on the database s
RootCommandRun(cmd, s) == lockRemoved(subcommandRun(cmd, s), LockFile \in DOMAIN s.dir)

(***************************************************************************)
(* The inputs the callers draw from                                        *)
(***************************************************************************)

RECURSIVE Flatten(_)
\* the concatenation of a sequence of byte sequences
Flatten(ss) == IF Len(ss) = 0 THEN <<>> ELSE Head(ss) \o Flatten(Tail(ss))

\* every prefix of s, the empty one and s itself included
PrefixesOf(s) == {Take(s, n) : n \in 0..Len(s)}

PrefixesOfAll(S) == UNION {PrefixesOf(s) : s \in S}

\* the greatest element count of the arrays the callers build
MaxArrayCount == 2

\* the key prefix of the ids d, o, i (small numbers) in canonical encoding
KP(d, o, i) == encodeKeyPrefix(<<KeyPrefix(U64FromNat(d), U64FromNat(o), U64FromNat(i))>>)

GlobalKP == KP(0, 0, 0)

DatabaseKP == KP(1, 0, 0)

ObjectStoreKP == KP(1, 1, objectStoreDataIndexId)

IndexKP == KP(1, 1, minimumIndexId)

\* the doubles 1.0, -2.0 and 0.0 and a NaN, as the 8 bytes a key holds
DoubleOne == <<0, 0, 0, 0, 0, 0, 240, 63>>

DoubleMinusTwo == <<0, 0, 0, 0, 0, 0, 0, 192>>

DoubleZero == <<0, 0, 0, 0, 0, 0, 0, 0>>

DoubleNaN == <<1, 0, 0, 0, 0, 0, 248, 127>>

\* encoded values without arrays: null, min-key, strings, binaries, a date, numbers
AtomValues ==
    { <<0>>, <<5>>, <<1, 0>>, <<1, 1, 0, 97>>, <<6, 0>>, <<6, 1, 255>>, <<6, 2, 97, 98>>,
      <<2>> \o DoubleOne, <<3>> \o DoubleMinusTwo, <<3>> \o DoubleZero }

\* the values the callers put into arrays
ArrayElems == { <<0>>, <<5>>, <<6, 1, 255>> }

\* arrays of up to MaxArrayCount elements, and one nested array
ArrayValues ==
    UNION { { <<4, n>> \o Flatten(es) : es \in [1..n -> ArrayElems] } : n \in 0..MaxArrayCount }
      \cup { <<4, 1, 4, 1, 0>> }

CanonValues == AtomValues \cup ArrayValues

\* the greatest varint, 2^63 - 1, in its 9 bytes
VarIntMax == <<255, 255, 255, 255, 255, 255, 255, 255, 127>>

\* well-formed keys in canonical encoding: minimal widths in the key prefix,
\* ids that are not negative, minimal varints, every payload whole
CanonKeys ==
    { ObjectStoreKP \o v : v \in CanonValues }
      \cup { KP(1, 1, existsEntryIndexId) \o <<5>>, KP(1, 1, blobEntryIndexId) \o <<0>> }
      \cup { IndexKP \o v \o sq \o pk :
               v \in { <<0>>, <<6, 1, 255>> }, sq \in { <<0>>, <<3>>, <<128, 1>> },
               pk \in { <<0>>, <<1, 1, 0, 97>> } }
      \cup { GlobalKP \o b :
               b \in { <<0>>, <<6>>, <<50>>, <<50, 1, 255>>, <<100, 0>>, <<100, 128, 1>>,
                       <<100>> \o VarIntMax, <<201, 0, 0>>,
                       <<201, 1, 0, 97, 1, 255, 255>> } }
      \cup { DatabaseKP \o b :
               b \in { <<0>>, <<50, 1, 0>>, <<50, 128, 1, 255>>, <<100, 1, 2, 0>>, <<150, 7>>,
                       <<151, 1, 2>>, <<200, 1, 0, 97>>, <<201, 1, 1, 0, 97>> } }
      \cup { <<32, 0, 1, 1, 1, 0>>, <<37, 255, 255, 255, 255, 0, 1, 5>>,
             <<224, 1, 35, 0, 0, 0, 0, 0, 1, 0, 0, 0>>,
             <<255>> \o U64ToBytes(MaxInt64, 8) \o U64ToBytes(MaxInt64, 8)
                     \o U64ToBytes(MaxUint32, 4) \o <<5>> }

\* complete keys that are not canonical: an id in more bytes than it needs, a
\* negative id, a varint or a length in more bytes than it needs
NonCanonKeys ==
    { <<32, 5, 0, 1, 1, 0>>, <<4, 1, 1, 0, 1, 0>>,
      <<224, 0, 0, 0, 0, 0, 0, 0, 128, 1, 1, 0>>,
      GlobalKP \o <<100, 128, 0>>, ObjectStoreKP \o <<1, 129, 0, 0, 97>> }

\* keys that are cut short or that no writer produces
WildKeys ==
    { ObjectStoreKP \o <<7>>, ObjectStoreKP \o <<2, 1, 2>>, ObjectStoreKP \o <<6, 5, 97>>,
      ObjectStoreKP \o <<1, 2, 0, 97, 0>>, ObjectStoreKP \o <<4, 3, 0>>,
      ObjectStoreKP \o <<4>> \o VarIntMax,
      GlobalKP \o <<100, 255, 255, 255, 255, 255, 255, 255, 255, 255>>,
      GlobalKP \o <<8>>, DatabaseKP \o <<7>>, KP(1, 1, 5) \o <<0>> }

CompleteKeys == CanonKeys \cup NonCanonKeys

PrefixKeys == CompleteKeys \cup WildKeys

\* values cut short at every length, for the comparator's callers
TruncatedValues ==
    PrefixesOfAll({ <<1, 1, 0, 97>>, <<6, 2, 97, 98>>, <<3>> \o DoubleZero,
                    <<4, 2, 0, 6, 1, 255>>, <<4, 1, 4, 1, 0>> })

\* bodies no writer produces: unknown tags, a varint that never ends, a NaN
WildValues ==
    { <<7>>, <<9, 1>>, <<6, 5, 97>>, <<1, 2, 0, 97, 0>>, <<4, 3, 0>>, <<4, 1, 7>>,
      <<6, 255, 255, 255, 255, 255, 255, 255, 255, 255>>, <<6>> \o VarIntMax \o <<1>>,
      <<2>> \o DoubleMinusTwo, <<3>> \o DoubleOne, <<3>> \o DoubleNaN }

\* object-store data keys: whole values, cut values and wild bodies
ObjectStoreKeys ==
    { ObjectStoreKP \o v : v \in CanonValues \cup TruncatedValues \cup WildValues }

\* index data keys: a value, then nothing, a sequence number, or a sequence
\* number and a primary key
IndexKeys ==
    { IndexKP \o v \o t :
        v \in { <<>>, <<0>>, <<6, 1, 255>>, <<7>> },
        t \in { <<>>, <<3>>, <<5>>, <<128, 1>>, <<255>>, <<3, 0>>, <<5, 0>>, <<3, 5>>,
                <<5, 1, 0>>, <<3, 7>> } }

GlobalKeys ==
    { GlobalKP \o b :
        b \in PrefixesOfAll({ <<0>>, <<6>>, <<7>>, <<50, 1, 255>>, <<50, 2>>, <<100, 128, 1>>,
                              <<100, 3>>, <<100, 255>>, <<150>>, <<201, 1, 0, 97, 1, 0, 98>>,
                              <<201, 1, 0, 97, 0>> }) }

DatabaseKeys ==
    { DatabaseKP \o b :
        b \in PrefixesOfAll({ <<0>>, <<5>>, <<6>>, <<50, 1, 0>>, <<50, 2, 0>>, <<50, 1, 1>>,
                              <<100, 1, 2, 0>>, <<100, 1, 3, 0>>, <<150, 7>>, <<151, 1, 2>>,
                              <<151, 1, 3>>, <<200, 1, 0, 97>>, <<201, 1, 1, 0, 97>>,
                              <<201, 2, 0>>, <<99>> }) }

\* keys that differ in the key prefix, or have no whole key prefix
HeaderKeys ==
    { <<>>, <<0>>, <<0, 1, 1>>, <<32, 1>>, <<255, 1, 2, 3>> }
      \cup { KP(d, o, i) \o <<0>> : d \in {0, 1, 2}, o \in {0, 1}, i \in {0, 1, 2, 3, 5, 30, 31} }
      \cup { <<32, 5, 0, 1, 1, 0>>, <<32, 0, 1, 1, 1, 0>>, <<4, 1, 1, 0, 1, 0>>,
             <<224, 0, 0, 0, 0, 0, 0, 0, 128, 1, 1, 0>>,
             <<224, 255, 255, 255, 255, 255, 255, 255, 255, 1, 1, 0>> }

\* the pairs of keys Compare is called with
ComparePairs ==
    (ObjectStoreKeys \X ObjectStoreKeys) \cup (IndexKeys \X IndexKeys)
      \cup (GlobalKeys \X GlobalKeys) \cup (DatabaseKeys \X DatabaseKeys)
      \cup (HeaderKeys \X HeaderKeys)

\* keys with binaries and strings shorter than they declare, among whole ones
OrderKeys ==
    { ObjectStoreKP \o v :
        v \in { <<0>>, <<5>>, <<6, 0>>, <<6, 4, 1, 2>>, <<6, 5, 1, 2, 0, 0, 0>>,
                <<6, 3, 1, 2, 200>>, <<1, 1, 0, 97>>, <<1, 2, 0, 97>> } }

\* the bytes the callers of succBytes build their sequences from
SuccAlphabet == {0, 1, 254, 255}

\* the greatest length of those sequences
MaxSuccLen == 3

SuccInputs == UNION { [1..n -> SuccAlphabet] : n \in 0..MaxSuccLen }

\* database and object-store ids: int64 values, those with the top bit set included
IdWords ==
    { U64Zero, U64FromNat(1), U64FromNat(255), U64FromNat(256), U64FromNat(65536),
      U64Bit(32), U64Bit(56), MaxInt64, U64Bit(63), U64Mask(64) }

\* index ids: what the four bytes of the format can hold
IndexIdWords ==
    { U64Zero, U64FromNat(1), U64FromNat(30), U64FromNat(255), U64FromNat(256),
      U64FromNat(65535), U64FromNat(65536), U64Bit(24), MaxUint32 }

\* the deepest nesting of the arrays the callers of Compare build
MaxNesting == 4

RECURSIVE NestedArray(_, _)
\* the value leaf inside n arrays of one element each
NestedArray(n, leaf) == IF n = 0 THEN leaf ELSE <<4, 1>> \o NestedArray(n - 1, leaf)

NestedValues ==
    { NestedArray(n, leaf) : n \in 0..MaxNesting, leaf \in { <<0>>, <<5>>, <<6, 1, 255>> } }

\* pairs of object-store data keys and of index data keys with nested arrays
NestedPairs ==
    { <<kp \o v, kp \o w>> : v \in NestedValues, w \in NestedValues,
                              kp \in { ObjectStoreKP, IndexKP } }

\* the calls two goroutines make at the same time: Compare on keys it
\* orders, on keys it cannot decode, and Prefix on prefixes with and without
\* a limit and on one whose array count cannot be allocated
ConcurrentCalls ==
    { [op |-> "Compare", a |-> x[1], b |-> x[2]] :
        x \in { <<ObjectStoreKP \o <<5>>, ObjectStoreKP \o <<0>>>>,
                <<ObjectStoreKP \o <<6, 2, 97>>, ObjectStoreKP \o <<6, 1, 255>>>>,
                <<IndexKP \o <<5>>, ObjectStoreKP \o <<4>>>>,
                <<ObjectStoreKP \o <<4>>, ObjectStoreKP \o <<4>>>>,
                <<<<0>>, ObjectStoreKP \o <<0>>>> } }
      \cup { [op |-> "Prefix", a |-> p, b |-> <<>>] :
               p \in { ObjectStoreKP \o <<6, 1>>, ObjectStoreKP \o <<5>>, <<224, 1, 2>>,
                       <<255, 255>>, ObjectStoreKP \o <<4, 255, 255, 255, 255, 255, 255, 255, 255, 127>> } }

\* the prefixes whose storage the callers watch: keys with one value (a
\* scopes key, binaries, a string, a number, null), and every cut of them
MemoryPrefixes ==
    PrefixesOfAll({ GlobalKP \o <<scopesPrefixByte, 1, 255>>,
                    GlobalKP \o <<scopesPrefixByte, 255, 255>>,
                    ObjectStoreKP \o <<6, 2, 97, 255>>,
                    ObjectStoreKP \o <<6, 2, 255, 255>>,
                    ObjectStoreKP \o <<6, 3, 97, 98>>,
                    IndexKP \o <<6, 1, 97, 0>>,
                    ObjectStoreKP \o <<1, 1, 0, 97>>,
                    ObjectStoreKP \o <<1, 1, 255, 255>>,
                    ObjectStoreKP \o <<3>> \o DoubleOne,
                    ObjectStoreKP \o <<0>>,
                    <<224, 1, 2>> }) \ {<<>>}

\* the bytes around the prefix in the array the caller cut it from
BytesBefore == <<9>>

BytesAfter == <<7, 7>>

\* the names of the entries of the directories destroy is run on: those
\* the tests list, and names close to them
EntryNames ==
    { <<"L", "O", "C", "K">>,
      <<"L", "O", "G">>,
      <<"L", "O", "G", ".", "o", "l", "d">>,
      <<"C", "U", "R", "R", "E", "N", "T">>,
      <<"C", "U", "R", "R", "E", "N", "T", ".", "b", "a", "k">>,
      <<"C", "U", "R", "R", "E", "N", "T", ".", "0", "0", "0", "0", "4", "2">>,
      <<"M", "A", "N", "I", "F", "E", "S", "T", "-", "0", "0", "0", "0", "4", "2">>,
      <<"0", "0", "0", "0", "4", "2", ".", "l", "d", "b">>,
      <<"0", "0", "0", "0", "4", "2", ".", "l", "o", "g">>,
      <<"0", "0", "0", "0", "4", "2", ".", "s", "s", "t">>,
      <<"0", "0", "0", "0", "4", "2", ".", "t", "m", "p">>,
      <<"L", "O", "C", "K", "2">>,
      <<"L", "O", "G", " ", "o", "l", "d">>,
      <<"L", "O", "G", ".", "b", "a", "k">>,
      <<"C", "U", "R", "R", "E", "N", "T", ".">>,
      <<"C", "U", "R", "R", "E", "N", "T", ".", "o", "r", "i", "g">>,
      <<"C", "U", "R", "R", "E", "N", "T", ".", "-", "0", "0", "0", "0", "4", "2">>,
      <<"C", "U", "R", "R", "E", "N", "T", ".", "0", "0", "0", "0", "4", "2", "a">>,
      <<"M", "A", "N", "I", "F", "E", "S", "T", "-">>,
      <<"M", "A", "N", "I", "F", "E", "S", "T", "-", "-", "0", "0", "0", "0", "4", "2">>,
      <<"M", "A", "N", "I", "F", "E", "S", "T", "-", "0", "0", "0", "0", "4", "2", "a">>,
      <<".", "l", "d", "b">>,
      <<".", "l", "o", "g">>,
      <<".", "s", "s", "t">>,
      <<".", "t", "m", "p">>,
      <<"4", "2", "l", "d", "b">>,
      <<"-", "0", "0", "0", "0", "4", "2", ".", "l", "o", "g">>,
      <<"-", "0", "0", "0", "0", "4", "2", ".", "l", "d", "b">>,
      <<"0", "0", "0", "0", "4", "2", "a", ".", "s", "s", "t">>,
      <<"0", "0", "0", "0", "4", "2", "a", ".", "t", "m", "p">>,
      <<"0", "0", "0", "0", "4", "2", ".", "t", "m", "p", ".", "g", "z">>,
      <<"0", "0", "0", "0", "4", "2", ".", "l", "o", "g", ".", "g", "z">>,
      <<"7", ".", "l", "d", "b">>,
      <<"C", "U", "R", "R", "E", "N", "T", ".", "0">>,
      <<"M", "A", "N", "I", "F", "E", "S", "T", "-", "0", "0", "0", "0", "0", "0">>,
      <<"0", "0", "0", "0", "0", "1", ".", "l", "o", "g">>,
      <<"*", ".", "l", "o", "g">>,
      <<"l", "e", "v", "e", "l", "d", "b", ".", "b", "a", "k">>,
      <<"u", "n", "r", "e", "l", "a", "t", "e", "d", ".", "t", "x", "t">>,
      <<"L", "O", "C", "K", ".", "b", "a", "k">>,
      <<"l", "o", "c", "k">>,
      <<"0", "0", "4", "2">>,
      <<"4", "2", ".", "L", "O", "G">>,
      <<"x", "L", "O", "C", "K">> }

\* an entry is a regular file, an empty directory or a directory with
\* something in it
EntryKinds == {"regular", "directory", "full directory"}

\* the names the callers also give to directories
DirectoryNames ==
    { <<"L", "O", "G">>,
      <<"0", "0", "0", "0", "4", "2", ".", "l", "d", "b">>,
      <<"0", "0", "4", "2">> }

\* the kinds of the entry called n
KindsOf(n) == IF n \in DirectoryNames THEN EntryKinds ELSE {"regular"}

\* the most entries of such a directory
MaxEntries == 2

RECURSIVE SubsetsUpTo(_, _)
\* the subsets of S of at most n elements
SubsetsUpTo(S, n) ==
    IF n = 0 THEN {{}}
    ELSE SubsetsUpTo(S, n - 1) \cup { p \cup {x} : p \in SubsetsUpTo(S, n - 1), x \in S }

\* the directories destroy is run on
Directories ==
    UNION { { d \in [N -> EntryKinds] : \A n \in N : d[n] \in KindsOf(n) } :
              N \in SubsetsUpTo(EntryNames, MaxEntries) }

\* the orders Readdirnames can return the names N in
Orders(N) ==
    { o \in [1..Cardinality(N) -> N] : \A i, j \in 1..Cardinality(N) : o[i] = o[j] => i = j }

\* the keys of the entries of a database: keys idb_cmp1 and bytes.Compare
\* order differently
StoredKeys == CommandKeys

StoredValues == { <<>>, <<7>> }

\* the key ranges of the commands that take one
KeyRanges ==
    { NoRange,
      [hasStart |-> TRUE, Start |-> ObjectStoreKP \o <<5>>, hasLimit |-> FALSE, Limit |-> <<>>],
      [hasStart |-> FALSE, Start |-> <<>>, hasLimit |-> TRUE, Limit |-> ObjectStoreKP \o <<6, 1, 255>>] }

\* what is in the directory that LevelDB did not put there
ForeignEntries ==
    { <<>>, (<<"u", "n", "r", "e", "l", "a", "t", "e", "d", ".", "t", "x", "t">> :> "regular"),
      (<<"u", "n", "r", "e", "l", "a", "t", "e", "d", ".", "t", "x", "t">> :> "regular") 
        @@ (<<"n", "o", "t", "e", "s">> :> "directory"),
      (bakfile :> "regular") }

\* inputs of load that are no dump: nothing, nil, a header alone, a map of
\* two with one entry, a key without its value, a key as a string
OtherInputs ==
    { <<>>, <<192>>, <<129>>, <<130, 196, 5>> \o ObjectStoreKP \o <<5, 196, 0>>, <<129, 196, 5>> \o ObjectStoreKP \o <<5>>,
      <<129, 165>> \o ObjectStoreKP \o <<0, 161, 7>>, <<7>> }

\* the commands run in a row
MaxCommands == 3

\* a command line: the subcommand and what its options and arguments give
Command(name, range, args, key, value, dryRun, input) ==
    [name |-> name, KeyRange |-> range, args |-> args, key |-> key, value |-> value,
     DryRun |-> dryRun, Invert |-> FALSE, input |-> input]

\* the command lines without a key
PlainCommands ==
    { Command(n, NoRange, <<>>, <<>>, <<>>, FALSE, <<>>) : n \in {"init", "compact", "destroy", "get", "put"} }
      \cup { Command("destroy", NoRange, <<>>, <<>>, <<>>, TRUE, <<>>) }
      \cup { Command(n, r, <<>>, <<>>, <<>>, FALSE, <<>>) :
               n \in {"keys", "show", "dump", "delete"}, r \in KeyRanges }

\* the command lines with a key
KeyCommands ==
    { Command("get", NoRange, <<k>>, k, <<>>, FALSE, <<>>) : k \in StoredKeys }
      \cup { Command("put", NoRange, <<k, v>>, k, v, FALSE, <<>>) :
               k \in StoredKeys, v \in StoredValues }
      \cup { Command("delete", NoRange, <<k>>, k, <<>>, d, <<>>) :
               k \in StoredKeys, d \in BOOLEAN }

\* delete with a key range and a key, and delete --invert-match with and
\* without either
DeleteCommands ==
    { Command("delete", r, <<k>>, k, <<>>, FALSE, <<>>) :
        k \in StoredKeys, r \in KeyRanges \ {NoRange} }
      \cup { [Command("delete", r, <<k>>, k, <<>>, FALSE, <<>>) EXCEPT !.Invert = TRUE] :
               k \in StoredKeys, r \in KeyRanges }
      \cup { [Command("delete", r, <<>>, <<>>, <<>>, FALSE, <<>>) EXCEPT !.Invert = TRUE] :
               r \in KeyRanges }

\* load with the input r
LoadCommand(r) == Command("load", NoRange, <<>>, <<>>, <<>>, FALSE, r)

(***************************************************************************)
(* The callers                                                             *)
(***************************************************************************)

Start0 == pc = 0 /\ rets = <<>> /\ stderr = <<>> /\ crashed = FALSE

InitCompare == mode = "compare" /\ keys \in ComparePairs /\ Start0

InitOrder == mode = "order" /\ keys \in OrderKeys \X OrderKeys \X OrderKeys /\ Start0

InitPrefix ==
    /\ mode = "prefix"
    /\ keys \in UNION { { <<Take(k, n), k>> : n \in 1..Len(k) } : k \in PrefixKeys }
    /\ Start0

InitSucc == mode = "succ" /\ keys \in { <<b>> : b \in SuccInputs } /\ Start0

InitCodec ==
    /\ mode = "codec"
    /\ keys \in { <<KeyPrefix(d, o, i)>> : d \in IdWords, o \in IdWords, i \in IndexIdWords }
    /\ Start0

InitNest == mode = "nest" /\ keys \in NestedPairs /\ Start0

\* the stack frame of a goroutine that has not made its call
NoFrame == [a |-> <<>>, b |-> <<>>]

\* two goroutines, each about to make one call; all they share is the
\* memory of the keys, standard error and the process
InitConcurrent ==
    /\ mode = "concurrent"
    /\ keys \in ConcurrentCalls \X ConcurrentCalls
    /\ pc = <<0, 0>>
    /\ rets = <<NoFrame, NoFrame>>
    /\ stderr = <<>>
    /\ crashed = FALSE

\* the caller holds the prefix as a slice of a longer array of its own
InitMemory ==
    /\ mode = "memory"
    /\ keys \in { <<p>> : p \in MemoryPrefixes }
    /\ pc = 0
    /\ rets = [heap |-> <<BytesBefore \o keys[1] \o BytesAfter>>,
               p |-> [buf |-> 1, off |-> Len(BytesBefore), len |-> Len(keys[1]),
                      cap |-> Len(keys[1]) + Len(BytesAfter)]]
    /\ stderr = <<>>
    /\ crashed = FALSE

\* a directory without a database, the comparer the user passes each time
\* (--indexeddb or not), and a file outside it for the dumps
InitDatabase ==
    /\ mode = "database"
    /\ keys = <<>>
    /\ pc = 0
    /\ \E d \in ForeignEntries, i \in BOOLEAN :
           rets = [dir |-> d, entries |-> NoEntries, IndexedDB |-> i, file |-> <<>>,
                   last |-> Command("none", NoRange, <<>>, <<>>, <<>>, FALSE, <<>>),
                   err |-> NoError, stdout |-> <<>>]
    /\ stderr = <<>>
    /\ crashed = FALSE

\* a directory with some entries, and destroy about to run on it
InitDestroy ==
    /\ mode = "destroy"
    /\ keys \in { <<d>> : d \in Directories }
    /\ pc = 0
    /\ rets = [dir |-> keys[1], entries |-> NoEntries, IndexedDB |-> FALSE,
               last |-> "none", err |-> NoError, stdout |-> <<>>]
    /\ stderr = <<>>
    /\ crashed = FALSE

Init ==
    \/ InitCompare \/ InitOrder \/ InitPrefix \/ InitSucc \/ InitCodec \/ InitNest
    \/ InitConcurrent \/ InitMemory \/ InitDatabase \/ InitDestroy

\* the caller after a call of Compare returned c: the value is kept under
\* name; a panic that leaves the call ends the caller
Returned(name, c) ==
    /\ rets' = IF c.crashed THEN rets ELSE rets @@ (name :> c.ret)
    /\ stderr' = stderr \o c.log
    /\ crashed' = c.crashed
    /\ pc' = pc + 1
    /\ UNCHANGED <<mode, keys>>

\* a call of Compare(a, b)
DoCompare(name, a, b) == ~crashed /\ Returned(name, CompareCall(a, b))

CompareAB == mode = "compare" /\ pc = 0 /\ DoCompare("ab", keys[1], keys[2])

CompareBA == mode = "compare" /\ pc = 1 /\ DoCompare("ba", keys[2], keys[1])

CompareXY == mode = "order" /\ pc = 0 /\ DoCompare("xy", keys[1], keys[2])

CompareYZ == mode = "order" /\ pc = 1 /\ DoCompare("yz", keys[2], keys[3])

CompareXZ == mode = "order" /\ pc = 2 /\ DoCompare("xz", keys[1], keys[3])

\* the caller after Prefix returned r, or panicked: Prefix recovers nothing
RangeReturned(r) ==
    /\ rets' = IF r.panic THEN rets ELSE rets @@ ("range" :> r)
    /\ crashed' = r.panic
    /\ pc' = 1
    /\ UNCHANGED <<mode, keys, stderr>>

\* Prefix(keys[1])
PrefixCall == mode = "prefix" /\ pc = 0 /\ ~crashed /\ RangeReturned(Prefix(keys[1]))

HasRange == mode = "prefix" /\ "range" \in DOMAIN rets /\ rets.range.has

CompareStartKey == HasRange /\ pc = 1 /\ DoCompare("startKey", rets.range.Start, keys[2])

CompareStartLimit ==
    /\ HasRange /\ pc = 2 /\ rets.range.hasLimit
    /\ DoCompare("startLimit", rets.range.Start, rets.range.Limit)

CompareKeyLimit ==
    /\ HasRange /\ pc = 3 /\ rets.range.hasLimit
    /\ DoCompare("keyLimit", keys[2], rets.range.Limit)

SuccBytesCall ==
    /\ mode = "succ" /\ pc = 0
    /\ rets' = rets @@ ("succ" :> succBytes(keys[1]))
    /\ pc' = 1
    /\ UNCHANGED <<mode, keys, stderr, crashed>>

EncodeKeyPrefixCall ==
    /\ mode = "codec" /\ pc = 0
    /\ rets' = rets @@ ("encoded" :> encodeKeyPrefix(keys))
    /\ pc' = 1
    /\ UNCHANGED <<mode, keys, stderr, crashed>>

\* the caller after decodeKeyPrefix returned d, or panicked
Decoded(d) ==
    /\ rets' = IF d.panic THEN rets
               ELSE rets @@ ("decoded" :> [rest |-> d.rest, prefix |-> d.prefix])
    /\ crashed' = d.panic
    /\ pc' = 2
    /\ UNCHANGED <<mode, keys, stderr>>

\* decodeKeyPrefix on what encodeKeyPrefix returned
DecodeKeyPrefixCall ==
    mode = "codec" /\ pc = 1 /\ ~crashed /\ Decoded(decodeKeyPrefix(rets.encoded))

\* the caller after Compare returned c, having recursed to depth d
NestedReturned(c, d) ==
    /\ rets' = IF c.crashed THEN rets ELSE rets @@ ("nested" :> c.ret) @@ ("depth" :> d)
    /\ stderr' = stderr \o c.log
    /\ crashed' = c.crashed
    /\ pc' = 1
    /\ UNCHANGED <<mode, keys>>

\* Compare on two keys with nested arrays
CompareNested ==
    /\ mode = "nest" /\ pc = 0 /\ ~crashed
    /\ NestedReturned(CompareCall(keys[1], keys[2]), recursionDepth(keys[1], keys[2]))

\* every goroutine reads the parameters of the only frame there is
parametersShared(frames, g) == frames[1]

\* the parameters of the call goroutine g is in: Compare and Prefix are
\* functions of their parameters and locals, the receiver idbCmp1 is an empty
\* struct passed by value
parameters(frames, g) == frames[g]

\* goroutine g moves to pc n with the frame f
Step(g, n, f) ==
    /\ pc' = [pc EXCEPT ![g] = n]
    /\ rets' = [rets EXCEPT ![g] = f]
    /\ UNCHANGED <<mode, keys>>

\* goroutine g enters its call: the slice headers of its arguments are
\* copied into its frame
GoCall(g) ==
    /\ mode = "concurrent" /\ ~crashed /\ pc[g] = 0
    /\ Step(g, 1, [a |-> keys[g].a, b |-> keys[g].b])
    /\ UNCHANGED <<stderr, crashed>>

\* the body of Compare in goroutine g, up to its return statement or panic
CompareRun(g) ==
    /\ mode = "concurrent" /\ ~crashed /\ pc[g] = 1 /\ keys[g].op = "Compare"
    /\ Step(g, 2, rets[g] @@ ("r" :> compareBody(parameters(rets, g).a, parameters(rets, g).b)))
    /\ UNCHANGED <<stderr, crashed>>

\* the three lines the deferred function of Compare prints for the warning w,
\* each with a call of its own
WarningLines(log) ==
    IF log = <<>> THEN <<>>
    ELSE <<[line |-> "warning"], [line |-> "a", key |-> log[1].a], [line |-> "b", key |-> log[1].b]>>

\* goroutine g once recover() in the deferred function of Compare made c of
\* the call: the lines to print are pending
CompareRecovered(g, c) ==
    /\ Step(g, 4, rets[g] @@ ("ret" :> c.ret) @@ ("out" :> WarningLines(c.log)))
    /\ crashed' = c.crashed
    /\ UNCHANGED stderr

\* the deferred function of Compare in goroutine g, up to its first print
CompareDeferred(g) ==
    /\ mode = "concurrent" /\ ~crashed /\ pc[g] = 2
    /\ CompareRecovered(g, recoverPanic(rets[g].r, parameters(rets, g).a, parameters(rets, g).b))

\* one Fprintln or Fprintf of the deferred function in goroutine g
ComparePrints(g) ==
    /\ mode = "concurrent" /\ ~crashed /\ pc[g] = 4 /\ rets[g].out # <<>>
    /\ stderr' = Append(stderr, Head(rets[g].out))
    /\ Step(g, 4, [rets[g] EXCEPT !.out = Tail(@)])
    /\ UNCHANGED crashed

\* Compare returns in goroutine g
CompareReturns(g) ==
    /\ mode = "concurrent" /\ ~crashed /\ pc[g] = 4 /\ rets[g].out = <<>>
    /\ Step(g, 3, rets[g])
    /\ UNCHANGED <<stderr, crashed>>

\* goroutine g after Prefix returned r, or panicked: the panic of one
\* goroutine ends the process
PrefixReturns(g, r) ==
    /\ IF r.panic THEN Step(g, 1, rets[g]) ELSE Step(g, 3, rets[g] @@ ("ret" :> r))
    /\ crashed' = r.panic
    /\ UNCHANGED stderr

\* Prefix in goroutine g
PrefixRun(g) ==
    /\ mode = "concurrent" /\ ~crashed /\ pc[g] = 1 /\ keys[g].op = "Prefix"
    /\ PrefixReturns(g, Prefix(parameters(rets, g).a))

Goroutines == {1, 2}

\* the caller after Prefix on its slice returned r, or panicked
RangeOnHeapReturned(r) ==
    /\ rets' = [heap |-> r.heap, p |-> rets.p, range |-> r]
    /\ crashed' = r.panic
    /\ pc' = 1
    /\ UNCHANGED <<mode, keys, stderr>>

\* Prefix(p) on the caller's slice
PrefixOnMemory ==
    mode = "memory" /\ pc = 0 /\ ~crashed /\ RangeOnHeapReturned(PrefixOnHeap(rets.heap, rets.p))

\* the caller after Compare, which reads its arguments and writes none,
\* returned c
ComparedOnHeap(c) ==
    /\ rets' = rets @@ ("startPrefix" :> c.ret)
    /\ stderr' = stderr \o c.log
    /\ crashed' = c.crashed
    /\ pc' = 2
    /\ UNCHANGED <<mode, keys>>

\* Compare(start, p) on the slices
CompareOnMemory ==
    /\ mode = "memory" /\ pc = 1 /\ ~crashed /\ rets.range.has
    /\ ComparedOnHeap(CompareCall(Bytes(rets.heap, rets.range.Start), Bytes(rets.heap, rets.p)))

\* the heap once the first byte of the slice s is written over
firstByteChanged(heap, s) ==
    [heap EXCEPT ![s.buf][s.off + 1] = (@ + 1) % 256]

\* the caller reuses the buffer of start
CallerWritesStart ==
    /\ mode = "memory" /\ pc = 2 /\ rets.range.Start # NilSlice
    /\ rets' = [rets EXCEPT !.heap = firstByteChanged(@, rets.range.Start)]
    /\ pc' = 3
    /\ UNCHANGED <<mode, keys, stderr, crashed>>

\* the caller reuses the buffer of limit
CallerWritesLimit ==
    /\ mode = "memory" /\ pc = 3 /\ rets.range.Limit # NilSlice
    /\ rets' = [rets EXCEPT !.heap = firstByteChanged(@, rets.range.Limit)]
    /\ pc' = 4
    /\ UNCHANGED <<mode, keys, stderr, crashed>>

\* the shell after the command line cmd returned o: a dump that succeeded is
\* kept in the file the user redirected it to
CommandReturned(cmd, o) ==
    /\ rets' = [rets EXCEPT !.dir = o.dir, !.entries = o.entries, !.last = cmd,
                            !.err = o.err, !.stdout = o.stdout,
                            !.file = IF cmd.name = "dump" /\ o.err = NoError
                                     THEN o.stdout ELSE @]
    /\ pc' = pc + 1
    /\ UNCHANGED <<mode, keys, stderr, crashed>>

\* main with the command line c; --indexeddb sets IndexedDB
RunCommand(c) ==
    /\ mode = "database" /\ pc < MaxCommands
    /\ CommandReturned(c, RootCommandRun(c @@ [IndexedDB |-> rets.IndexedDB], rets))

\* a command line without a key
RunPlain == \E c \in PlainCommands : RunCommand(c)

\* a command line with a key
RunWithKey == \E c \in KeyCommands : RunCommand(c)

\* delete with a key range, a key and --invert-match
RunDelete == \E c \in DeleteCommands : RunCommand(c)

\* load of the file of the last dump, or of another input
RunLoad == \E r \in OtherInputs \cup {rets.file} : RunCommand(LoadCommand(r))

\* the caller of DestroyDB after it returned o
Destroyed(name, o) ==
    /\ rets' = [rets EXCEPT !.dir = o.dir, !.last = name, !.err = o.err, !.stdout = o.stdout]
    /\ pc' = 1
    /\ UNCHANGED <<mode, keys, stderr, crashed>>

\* the destroy command, with and without --dry-run
DestroyCommandRun ==
    /\ mode = "destroy" /\ pc = 0
    /\ \E dryRun \in BOOLEAN :
           Destroyed(IF dryRun THEN "destroy -n" ELSE "destroy",
                     DestroyDB([IndexedDB |-> FALSE], rets, dryRun))

\* DestroyDB(dbpath) of the package
DestroyPathCall ==
    /\ mode = "destroy" /\ pc = 0
    /\ \E names \in Orders(DOMAIN rets.dir) : Destroyed("DestroyDB", DestroyDBPath(rets, names))

NextCompare == CompareAB \/ CompareBA

NextOrder == CompareXY \/ CompareYZ \/ CompareXZ

NextPrefix == PrefixCall \/ CompareStartKey \/ CompareStartLimit \/ CompareKeyLimit

NextSucc == SuccBytesCall

NextCodec == EncodeKeyPrefixCall \/ DecodeKeyPrefixCall

NextNest == CompareNested

NextConcurrent ==
    \E g \in Goroutines :
        \/ GoCall(g) \/ CompareRun(g) \/ CompareDeferred(g) \/ ComparePrints(g)
        \/ CompareReturns(g) \/ PrefixRun(g)

NextMemory == PrefixOnMemory \/ CompareOnMemory \/ CallerWritesStart \/ CallerWritesLimit

NextDatabase == RunPlain \/ RunWithKey \/ RunDelete \/ RunLoad

NextDestroy == DestroyCommandRun \/ DestroyPathCall

Next ==
    \/ NextCompare \/ NextOrder \/ NextPrefix \/ NextSucc \/ NextCodec \/ NextNest
    \/ NextConcurrent \/ NextMemory \/ NextDatabase \/ NextDestroy

SpecCompare == InitCompare /\ [][NextCompare]_vars

SpecOrder == InitOrder /\ [][NextOrder]_vars

SpecPrefix == InitPrefix /\ [][NextPrefix]_vars

SpecSucc == InitSucc /\ [][NextSucc]_vars

SpecCodec == InitCodec /\ [][NextCodec]_vars

SpecNest == InitNest /\ [][NextNest]_vars

SpecConcurrent == InitConcurrent /\ [][NextConcurrent]_vars

SpecMemory == InitMemory /\ [][NextMemory]_vars

SpecDatabase == InitDatabase /\ [][NextDatabase]_vars

SpecDestroy == InitDestroy /\ [][NextDestroy]_vars

Spec == Init /\ [][Next]_vars

(***************************************************************************)
(* Properties of the prefix-range engine                                   *)
(***************************************************************************)

\* the key the caller of Prefix holds begins with the prefix it passed
KeyBeginsWithPrefix == Take(keys[2], Len(keys[1])) = keys[1]

\* start <= k, and k < limit when there is a limit, as far as the calls have
\* been made
RangeHoldsKey ==
    /\ ("startKey" \in DOMAIN rets => rets.startKey <= 0)
    /\ ("keyLimit" \in DOMAIN rets => rets.keyLimit < 0)

\* C1 as stated: for every non-empty prefix p and every complete record key
\* k that begins with p, Compare(start, k) <= 0 and, when Prefix(p) returns a
\* limit, Compare(k, limit) < 0.
C1_SoundForCompleteKeys ==
    (mode = "prefix" /\ keys[2] \in CompleteKeys /\ KeyBeginsWithPrefix) => RangeHoldsKey

\* C1 amended: the same for every complete record key k in canonical encoding
\* (the ids of the key prefix not negative and in as few bytes as they need,
\* every varint in as few bytes as it needs): Compare(start, k) <= 0 and,
\* when Prefix(p) returns a limit, Compare(k, limit) < 0.
C1_SoundForCanonicalKeys ==
    (mode = "prefix" /\ keys[2] \in CanonKeys /\ KeyBeginsWithPrefix) => RangeHoldsKey

\* a canonical key cut inside its body whose range has both bounds, all
\* three comparisons made: start <= k < limit
C1_Witness ==
    /\ mode = "prefix" /\ keys[2] \in CanonKeys /\ KeyBeginsWithPrefix
    /\ Len(keys[1]) > 4 /\ Len(keys[1]) < Len(keys[2])
    /\ "keyLimit" \in DOMAIN rets
    /\ rets.startKey <= 0 /\ rets.keyLimit < 0

\* C5: for every non-empty prefix p for which Prefix(p) returns a limit,
\* Compare(start, limit) <= 0.
C5_BoundsOrdered ==
    (mode = "prefix" /\ "startLimit" \in DOMAIN rets) => rets.startLimit <= 0

\* a prefix that ends inside the key prefix, with a limit strictly above start
C5_Witness ==
    /\ mode = "prefix" /\ "startLimit" \in DOMAIN rets
    /\ Len(keys[1]) \in 2..3 /\ keys[1][1] = 37
    /\ rets.startLimit = -1

\* whether p is shorter than the key prefix its header byte declares
IsPartialKeyPrefix(p) ==
    Len(p) < 1 + databaseIdBytes(p[1]) + objectStoreIdBytes(p[1]) + indexIdBytes(p[1])

\* the bytes of p that belong to the id field of width n that starts off
\* bytes after the header byte
GivenBytes(p, off, n) == SubSeq(p, 2 + off, MinNat(Len(p), 1 + off + n))

\* the least value of width n that begins (low bytes first) with the bytes
\* g: the bytes themselves when all n are given; else the missing bytes are 0,
\* but for the top byte, which is 1 when the width is more than one byte
LeastOfWidth(g, n) ==
    IF Len(g) = n THEN g
    ELSE IF n = 1 THEN <<0>>
    ELSE g \o [j \in 1..(n - Len(g) - 1) |-> 0] \o <<1>>

\* the greatest such value: the missing bytes are 0xff, but for the top byte
\* of an 8-byte id, which is 0x7f as ids are not negative
GreatestOfWidth(g, n) ==
    IF Len(g) = n THEN g
    ELSE g \o [j \in 1..(n - Len(g) - 1) |-> 255] \o <<IF n = 8 THEN 127 ELSE 255>>

\* the triple of the least (Least = TRUE) or greatest ids consistent with p
BoundTriple(p, Least) ==
    LET dn == databaseIdBytes(p[1])
        on == objectStoreIdBytes(p[1])
        in == indexIdBytes(p[1])
        W(g, n) == IF Least THEN LeastOfWidth(g, n) ELSE GreatestOfWidth(g, n)
    IN  KeyPrefix(U64FromBytes(W(GivenBytes(p, 0, dn), dn)),
                  U64FromBytes(W(GivenBytes(p, dn, on), on)),
                  U64FromBytes(W(GivenBytes(p, dn + on, in), in)))

\* C10: for a prefix shorter than the key prefix its header byte declares,
\* start = encodeKeyPrefix(min triple) and limit =
\* encodeKeyPrefix(succKeyPrefix(max triple)), min and max being the least
\* and greatest ids of the declared widths consistent with the bytes present;
\* the limit is absent exactly when the max triple has no successor.
C10_PartialKeyPrefixBounds ==
    (mode = "prefix" /\ "range" \in DOMAIN rets /\ IsPartialKeyPrefix(keys[1])) =>
        /\ rets.range.Start = encodeKeyPrefix(<<BoundTriple(keys[1], TRUE)>>)
        /\ rets.range.Limit = encodeKeyPrefix(succKeyPrefix(BoundTriple(keys[1], FALSE)))
        /\ rets.range.hasLimit <=> succKeyPrefix(BoundTriple(keys[1], FALSE)) # NilKeyPrefix

\* a prefix that ends inside an 8-byte database id whose given bytes have
\* clear bits, with a limit
C10_Witness ==
    /\ mode = "prefix" /\ "range" \in DOMAIN rets /\ IsPartialKeyPrefix(keys[1])
    /\ keys[1][1] = 224 /\ Len(keys[1]) = 3
    /\ rets.range.hasLimit
    /\ rets.range.Start = encodeKeyPrefix(<<BoundTriple(keys[1], TRUE)>>)

(***************************************************************************)
(* Properties of the comparator                                            *)
(***************************************************************************)

\* a key Compare decodes without a failure when it meets the key itself
Decodable(k) == ~compareBody(k, k).panic

\* C2: for all decodable keys a and b, Compare(a, b) = -Compare(b, a), and
\* Compare(a, a) = 0.
C2_Antisymmetric ==
    (mode = "compare" /\ "ba" \in DOMAIN rets /\ Decodable(keys[1]) /\ Decodable(keys[2])) =>
        /\ rets.ab = -rets.ba
        /\ keys[1] = keys[2] => rets.ab = 0

\* two different decodable keys, one of them cut short, ordered one way by
\* Compare(a, b) and the other way by Compare(b, a)
C2_Witness ==
    /\ mode = "compare" /\ "ba" \in DOMAIN rets
    /\ Decodable(keys[1]) /\ Decodable(keys[2])
    /\ keys[1] = ObjectStoreKP \o <<6, 2, 97>> /\ keys[2] = ObjectStoreKP \o <<6, 1, 255>>
    /\ rets.ab = -1 /\ rets.ba = 1

\* C3 as stated: for all decodable keys x, y, z, keys with a payload shorter
\* than its declared length included, Compare(x, y) <= 0 and
\* Compare(y, z) <= 0 imply Compare(x, z) <= 0.
C3_Transitive ==
    (mode = "order" /\ "xz" \in DOMAIN rets
       /\ Decodable(keys[1]) /\ Decodable(keys[2]) /\ Decodable(keys[3])) =>
        ((rets.xy <= 0 /\ rets.yz <= 0) => rets.xz <= 0)

\* the warning Compare writes for the keys a and b
Warning(a, b) == [a |-> a, b |-> b]

\* C4: for any two byte sequences Compare returns to its caller, with a
\* value in {-1, 0, 1}; when decoding fails inside the call, the call returns
\* 0 and has reported the failure together with both keys.
C4_NeverPropagates ==
    mode = "compare" =>
        /\ ~crashed
        /\ DOMAIN rets = (IF pc = 0 THEN {} ELSE IF pc = 1 THEN {"ab"} ELSE {"ab", "ba"})
        /\ \A name \in DOMAIN rets : rets[name] \in {-1, 0, 1}
        /\ ("ab" \in DOMAIN rets /\ compareBody(keys[1], keys[2]).panic) =>
               (rets.ab = 0 /\ \E i \in DOMAIN stderr : stderr[i] = Warning(keys[1], keys[2]))
        /\ ("ba" \in DOMAIN rets /\ compareBody(keys[2], keys[1]).panic) =>
               (rets.ba = 0 /\ \E i \in DOMAIN stderr : stderr[i] = Warning(keys[2], keys[1]))

\* two keys with unknown type tags met: both calls returned 0 and each wrote
\* its warning
C4_Witness ==
    /\ mode = "compare" /\ pc = 2 /\ ~crashed
    /\ keys[1] = ObjectStoreKP \o <<7>>
    /\ keys[2] = ObjectStoreKP \o <<9, 1>>
    /\ rets.ab = 0 /\ rets.ba = 0
    /\ stderr = <<Warning(keys[1], keys[2]), Warning(keys[2], keys[1])>>

\* the values index data keys hold in the properties below
IndexValues == { <<0>>, <<6, 1, 255>> }

\* what follows the value of an index data key: the bytes, whether there is
\* a sequence number, the number, and the primary key (empty: none)
IndexTails ==
    { [bytes |-> <<>>, hasSeq |-> FALSE, seq |-> 0, pk |-> <<>>],
      [bytes |-> <<3>>, hasSeq |-> TRUE, seq |-> 3, pk |-> <<>>],
      [bytes |-> <<5>>, hasSeq |-> TRUE, seq |-> 5, pk |-> <<>>],
      [bytes |-> <<128, 1>>, hasSeq |-> TRUE, seq |-> 128, pk |-> <<>>],
      [bytes |-> <<3, 0>>, hasSeq |-> TRUE, seq |-> 3, pk |-> <<0>>],
      [bytes |-> <<5, 0>>, hasSeq |-> TRUE, seq |-> 5, pk |-> <<0>>],
      [bytes |-> <<3, 5>>, hasSeq |-> TRUE, seq |-> 3, pk |-> <<5>>],
      [bytes |-> <<5, 1, 0>>, hasSeq |-> TRUE, seq |-> 5, pk |-> <<1, 0>>] }

\* the rank of the type of an encoded value with the given tag byte: null
\* and unknown tags 0, array 1, binary 2, string 3, date 4, number 5, min-key 6
TagRank(tag) ==
    CASE tag = 4 -> 1
      [] tag = 6 -> 2
      [] tag = 1 -> 3
      [] tag = 2 -> 4
      [] tag = 3 -> 5
      [] tag = 5 -> 6
      [] OTHER -> 0

\* the order C6 states: by sequence number, none before any
OrderBySequenceNumber(t, u) ==
    IF ~t.hasSeq \/ ~u.hasSeq
    THEN CmpInt(IF t.hasSeq THEN 1 ELSE 0, IF u.hasSeq THEN 1 ELSE 0)
    ELSE CmpInt(t.seq, u.seq)

\* the order of the code: a key that ends before its primary key sorts by
\* what is left of it; else the primary keys decide, then the sequence numbers
OrderByPrimaryKeyThenSequenceNumber(t, u) ==
    IF t.pk = <<>> \/ u.pk = <<>> THEN CmpInt(Len(t.pk), Len(u.pk))
    ELSE IF TagRank(t.pk[1]) # TagRank(u.pk[1])
         THEN CmpInt(TagRank(t.pk[1]), TagRank(u.pk[1]))
    ELSE CmpInt(t.seq, u.seq)

\* C6 as stated: two index data keys with equal key prefix and equal values
\* are ordered by their trailing sequence numbers, a key without a sequence
\* number before a key with one (checked on keys that end with the sequence
\* number, if any).
C6_OrderedBySequenceNumber ==
    (mode = "compare" /\ "ab" \in DOMAIN rets) =>
        \A v \in IndexValues : \A t, u \in IndexTails :
            (/\ t.pk = <<>> /\ u.pk = <<>>
             /\ keys[1] = IndexKP \o v \o t.bytes
             /\ keys[2] = IndexKP \o v \o u.bytes)
              => rets.ab = OrderBySequenceNumber(t, u)

\* C6 amended: two index data keys with equal key prefix and equal values
\* compare by the number of bytes after the sequence number when one of them
\* has no primary key there (two keys that end with their sequence numbers
\* are Equal, a key without a sequence number is Equal to them and below
\* every key with a primary key); when both have a primary key, the primary
\* keys decide, and the sequence numbers only when the primary keys are equal.
C6_OrderedByPrimaryKeyFirst ==
    (mode = "compare" /\ "ab" \in DOMAIN rets) =>
        \A v \in IndexValues : \A t, u \in IndexTails :
            (/\ keys[1] = IndexKP \o v \o t.bytes
             /\ keys[2] = IndexKP \o v \o u.bytes)
              => rets.ab = OrderByPrimaryKeyThenSequenceNumber(t, u)

\* equal values, sequence numbers 3 and 5 and nothing after them: Equal
C6_Witness ==
    /\ mode = "compare" /\ "ab" \in DOMAIN rets
    /\ keys[1] = IndexKP \o <<0, 3>> /\ keys[2] = IndexKP \o <<0, 5>>
    /\ rets.ab = 0

\* the place of the doubles of the model in the numeric order
NumericRank(d) ==
    CASE d = DoubleMinusTwo -> 1
      [] d = DoubleZero -> 2
      [] d = DoubleOne -> 3

\* the bodies of the two object-store data keys the caller compares
BodyA == Drop(keys[1], Len(ObjectStoreKP))

BodyB == Drop(keys[2], Len(ObjectStoreKP))

\* the caller compares two object-store data keys with values of different tags
DifferentTags ==
    /\ mode = "compare" /\ "ab" \in DOMAIN rets
    /\ keys[1] \in ObjectStoreKeys /\ keys[2] \in ObjectStoreKeys
    /\ Len(BodyA) > 0 /\ Len(BodyB) > 0
    /\ BodyA[1] # BodyB[1]

\* the caller compares a date and a number (or a number and a date) whose
\* doubles are whole and among those of NumericRank
DateAndNumber ==
    /\ DifferentTags
    /\ {BodyA[1], BodyB[1]} = {2, 3}
    /\ Len(BodyA) = 9 /\ Len(BodyB) = 9
    /\ {Drop(BodyA, 1), Drop(BodyB, 1)} \subseteq {DoubleMinusTwo, DoubleZero, DoubleOne}

\* C7 as stated: values with different tags are ordered by the rank of their
\* types, but a date and a number share one rank and are ordered by their
\* doubles.
C7_DateAndNumberShareRank ==
    /\ DateAndNumber =>
         rets.ab = CmpInt(NumericRank(Drop(BodyA, 1)), NumericRank(Drop(BodyB, 1)))
    /\ (DifferentTags /\ {BodyA[1], BodyB[1]} # {2, 3}) =>
         rets.ab = CmpInt(TagRank(BodyA[1]), TagRank(BodyB[1]))

\* C7 amended: values with different tags are ordered by the rank of their
\* types alone, null/invalid < array < binary < string < date < number <
\* min-key: every date sorts before every number, whatever their doubles.
C7_OrderedByTypeRank ==
    DifferentTags => rets.ab = CmpInt(TagRank(BodyA[1]), TagRank(BodyB[1]))

\* the date 1.0 sorts before the number -2.0
C7_Witness ==
    /\ DateAndNumber
    /\ BodyA = <<2>> \o DoubleOne /\ BodyB = <<3>> \o DoubleMinusTwo
    /\ rets.ab = -1

(***************************************************************************)
(* Properties of the codecs                                                *)
(***************************************************************************)

\* C8: decodeKeyPrefix(encodeKeyPrefix(triple)) returns the triple, and no
\* byte is left over.
C8_KeyPrefixRoundTrip ==
    (mode = "codec" /\ pc = 2) =>
        /\ ~crashed
        /\ "decoded" \in DOMAIN rets
        /\ rets.decoded.prefix = keys[1]
        /\ rets.decoded.rest = <<>>

\* a triple whose ids take 8, 2 and 4 bytes came back from its 15 bytes
C8_Witness ==
    /\ mode = "codec" /\ pc = 2 /\ "decoded" \in DOMAIN rets
    /\ keys[1] = KeyPrefix(MaxInt64, U64FromNat(256), MaxUint32)
    /\ Len(rets.encoded) = 15
    /\ rets.decoded.prefix = keys[1] /\ rets.decoded.rest = <<>>

RECURSIVE LexLess(_, _)
\* a < b in the lexicographic order of byte sequences
LexLess(a, b) ==
    IF Len(b) = 0 THEN FALSE
    ELSE IF Len(a) = 0 THEN TRUE
    ELSE IF a[1] # b[1] THEN a[1] < b[1]
    ELSE LexLess(Tail(a), Tail(b))

\* the byte sequences looked for between b and its successor
BetweenCandidates == UNION { [1..n -> SuccAlphabet \cup {2}] : n \in 0..MaxSuccLen }

\* C9: succBytes(b) is absent exactly when b is empty or all 0xff; otherwise
\* it is greater than b, no longer than b, and no byte sequence of at most
\* len(b) bytes lies strictly between b and it.
C9_SuccBytes ==
    (mode = "succ" /\ "succ" \in DOMAIN rets) =>
        /\ rets.succ = <<>> <=> \A i \in DOMAIN keys[1] : keys[1][i] = 255
        /\ rets.succ # <<>> =>
             /\ LexLess(keys[1], rets.succ)
             /\ Len(rets.succ) <= Len(keys[1])
             /\ \A c \in BetweenCandidates :
                    Len(c) <= Len(keys[1]) => ~(LexLess(keys[1], c) /\ LexLess(c, rets.succ))

\* the successor of 01 ff is 02: the trailing 0xff is dropped
C9_Witness ==
    /\ mode = "succ" /\ "succ" \in DOMAIN rets
    /\ keys[1] = <<1, 255>> /\ rets.succ = <<2>>

(***************************************************************************)
(* Tightness of the prefix-range engine                                    *)
(***************************************************************************)

\* whether p is a byte-wise prefix of s
IsPrefixOf(p, s) == Len(p) <= Len(s) /\ Take(s, Len(p)) = p

\* the complete keys the start bound is looked for among: the complete keys
\* of the callers and the index data keys that end with their value (the
\* sequence number is optional)
CompleteStarts == CompleteKeys \cup { IndexKP \o v : v \in IndexValues }

\* the caller got a range whose start is a complete key
StartIsComplete ==
    /\ mode = "prefix" /\ "range" \in DOMAIN rets /\ rets.range.has
    /\ rets.range.Start \in CompleteStarts

\* whether p goes on after the encoded value of an index data key
PastIndexValue(p) ==
    \E v \in IndexValues : Len(p) > Len(IndexKP \o v) /\ IsPrefixOf(IndexKP \o v, p)

\* C11 as stated: for every non-empty prefix p, if the start returned by
\* Prefix(p) is a complete key, then p is a byte-wise prefix of start.
C11_StartExtendsPrefix == StartIsComplete => IsPrefixOf(keys[1], rets.range.Start)

\* C11 amended: the same for every non-empty prefix p of a complete key in
\* canonical encoding that does not go on after the encoded value of an index
\* data key: if the start returned by Prefix(p) is a complete key, then p is a
\* byte-wise prefix of start.
C11_StartExtendsCanonicalPrefix ==
    (StartIsComplete /\ keys[2] \in CanonKeys /\ ~PastIndexValue(keys[1])) =>
        IsPrefixOf(keys[1], rets.range.Start)

\* the whole key of the number -2.0 was passed: start is that key
C11_Witness ==
    /\ StartIsComplete /\ keys[2] \in CanonKeys
    /\ keys[1] = ObjectStoreKP \o <<3>> \o DoubleMinusTwo
    /\ rets.range.Start = keys[1]

(***************************************************************************)
(* Totality of the prefix-range engine                                     *)
(***************************************************************************)

\* C12: for every non-empty prefix, one cut inside any field and one that
\* declares an arbitrarily large element count or length included, Prefix
\* returns a range to its caller and does not fail.
C12_PrefixTotal ==
    (mode = "prefix" /\ pc >= 1) =>
        /\ ~crashed
        /\ "range" \in DOMAIN rets
        /\ rets.range.has

(***************************************************************************)
(* The depth of the recursion on nested arrays                             *)
(***************************************************************************)

\* how many arrays the value of the key k is nested in
NestingOf(k) == CHOOSE n \in 0..MaxNesting :
    \E leaf \in { <<0>>, <<5>>, <<6, 1, 255>> } :
        \E kp \in { ObjectStoreKP, IndexKP } : k = kp \o NestedArray(n, leaf)

\* the caps on the depth that the keys of the callers can exceed
DepthCaps == 1..MaxNesting

\* C13: the depth the recursion of Compare reaches on nested arrays stays
\* within a fixed cap whatever the input, and a key nested deeper than the cap
\* is reported as malformed instead of being recursed into.
C13_RecursionDepthCapped ==
    (mode = "nest" /\ "depth" \in DOMAIN rets) =>
        \E cap \in DepthCaps :
            /\ rets.depth <= cap
            /\ (NestingOf(keys[1]) > cap /\ NestingOf(keys[2]) > cap) => stderr # <<>>

(***************************************************************************)
(* Concurrent calls                                                        *)
(***************************************************************************)

\* what the call c returns when nothing else runs
ResultAlone(c) == IF c.op = "Compare" THEN Compare(c.a, c.b) ELSE Prefix(c.a)

\* what the call c writes to standard error when nothing else runs
LogAlone(c) == IF c.op = "Compare" THEN WarningLines(CompareCall(c.a, c.b).log) ELSE <<>>

\* the lines of standard error
Lines(s) == { s[i] : i \in 1..Len(s) }

NoSharedStorage(s, t) == s.buf = 0 \/ t.buf = 0 \/ s.buf # t.buf

\* C15: Compare(a, b) and Prefix(p) leave the bytes of their arguments, and
\* of the array around them, as they were, and the start and limit Prefix
\* returns are new buffers that share no storage with p nor with each other:
\* they hold what Prefix computes from the bytes of p, and writing to them
\* changes no byte of p.
C15_InputsUnchangedResultsFresh ==
    mode = "memory" =>
        /\ rets.heap[1] = BytesBefore \o keys[1] \o BytesAfter
        /\ Bytes(rets.heap, rets.p) = keys[1]
        /\ "range" \in DOMAIN rets =>
              /\ NoSharedStorage(rets.range.Start, rets.p)
              /\ NoSharedStorage(rets.range.Limit, rets.p)
              /\ NoSharedStorage(rets.range.Start, rets.range.Limit)
              /\ pc \in {1, 2} =>
                    /\ Bytes(rets.heap, rets.range.Start) = Prefix(keys[1]).Start
                    /\ Bytes(rets.heap, rets.range.Limit) = Prefix(keys[1]).Limit

\* Prefix was called on a binary key, whose payload went through succBytes,
\* Compare on its start and the prefix, and the caller has written to both
\* buffers it was given
C15_Witness ==
    /\ mode = "memory" /\ pc = 4
    /\ keys[1] = ObjectStoreKP \o <<6, 2, 97, 255>>
    /\ rets.startPrefix = 0
    /\ Bytes(rets.heap, rets.range.Start) # keys[1]
    /\ Bytes(rets.heap, rets.range.Limit) = <<1>> \o Drop(ObjectStoreKP, 1) \o <<6, 2, 98>>

(***************************************************************************)
(* Properties of the database commands                                     *)
(***************************************************************************)

\* the directory of s holds a database: one that opens with ErrorIfMissing
HoldsDatabase(s) == OpenFile(s, Options(TRUE, FALSE, TRUE)).err = NoError

\* the step is the run of the command called name
Ran(name) == mode = "database" /\ pc' = pc + 1 /\ rets'.last.name = name

\* C16: init on a directory that holds no database succeeds and creates one,
\* without entries; init on a directory that holds a database fails with an
\* error and leaves the database and its entries as they were.
C16_InitCreatesOrFails ==
    [][Ran("init") =>
         IF HoldsDatabase(rets)
         THEN rets'.err # NoError /\ HoldsDatabase(rets') /\ rets'.entries = rets.entries
         ELSE rets'.err = NoError /\ HoldsDatabase(rets') /\ rets'.entries = NoEntries]_vars

\* init has failed on a database that holds an entry, which is still there
C16_Witness ==
    /\ mode = "database" /\ rets.last.name = "init"
    /\ rets.err = ErrExist
    /\ rets.entries # NoEntries
    /\ HoldsDatabase(rets)

\* the commands that need a database to be there
NeedDatabase == {"get", "put", "delete", "keys", "show", "dump", "compact"}

\* C17: get, put, delete, keys, show, dump and compact, run on a directory
\* that holds no database, return an error, and the directory holds no
\* database afterwards.
C17_MissingDatabaseFails ==
    [][(\E n \in NeedDatabase : Ran(n)) /\ ~HoldsDatabase(rets)
         => rets'.err # NoError /\ ~HoldsDatabase(rets') /\ rets'.entries = NoEntries]_vars

C17_Witness ==
    /\ mode = "database" /\ rets.last.name = "put" /\ Len(rets.last.args) = 2
    /\ rets.err = ErrNotExist
    /\ ~HoldsDatabase(rets)

(***************************************************************************)
(* Properties of destroy                                                   *)
(***************************************************************************)

\* n is one digit or more
AllDigits(n) == Len(n) >= 1 /\ \A i \in 1..Len(n) : n[i] \in {"0", "1", "2", "3", "4", "5", "6", "7", "8", "9"}

\* n is p followed by one digit or more
DigitsAfter(p, n) == Len(n) > Len(p) /\ Take(n, Len(p)) = p /\ AllDigits(Drop(n, Len(p)))

\* n is one digit or more followed by e
DigitsBefore(n, e) ==
    Len(n) > Len(e) /\ Drop(n, Len(n) - Len(e)) = e /\ AllDigits(Take(n, Len(n) - Len(e)))

\* the names of the files of a LevelDB database, as the claim lists them
LevelDBFileName(n) ==
    \/ n \in { <<"L", "O", "C", "K">>, <<"L", "O", "G">>, <<"L", "O", "G", ".", "o", "l", "d">>,
               <<"C", "U", "R", "R", "E", "N", "T">>,
               <<"C", "U", "R", "R", "E", "N", "T", ".", "b", "a", "k">> }
    \/ DigitsAfter(<<"C", "U", "R", "R", "E", "N", "T", ".">>, n)
    \/ DigitsAfter(<<"M", "A", "N", "I", "F", "E", "S", "T", "-">>, n)
    \/ \E e \in { <<".", "l", "d", "b">>, <<".", "l", "o", "g">>, <<".", "s", "s", "t">>,
                  <<".", "t", "m", "p">> } : DigitsBefore(n, e)

\* destroy ran, not as a dry run, and returned success
DestroyRan == mode = "destroy" /\ pc = 1 /\ rets.last \in {"destroy", "DestroyDB"} /\ rets.err = NoError

\* C18 as stated: what destroy leaves of the directory is exactly the
\* entries whose whole name does not match the LevelDB file pattern, so that
\* every entry whose name matches is removed.
C18_RemovesExactlyMatching ==
    DestroyRan => rets.dir = [n \in { m \in DOMAIN keys[1] : ~LevelDBFileName(m) } |-> keys[1][n]]

\* C18: destroy removes every regular file whose whole name matches the
\* LevelDB file pattern and leaves every entry whose name does not match as
\* it was; the destroy command also leaves every entry that is not a
\* regular file, whatever its name.
C18_RemovesMatchingRegularFiles ==
    DestroyRan =>
        /\ DOMAIN rets.dir \subseteq DOMAIN keys[1]
        /\ \A n \in DOMAIN keys[1] :
               /\ keys[1][n] = "regular" /\ LevelDBFileName(n) => n \notin DOMAIN rets.dir
               /\ ~LevelDBFileName(n) => n \in DOMAIN rets.dir /\ rets.dir[n] = keys[1][n]
               /\ rets.last = "destroy" /\ keys[1][n] # "regular"
                    => n \in DOMAIN rets.dir /\ rets.dir[n] = keys[1][n]

C18_Witness ==
    /\ DestroyRan /\ rets.last = "destroy"
    /\ \E n \in DOMAIN keys[1] : keys[1][n] = "regular" /\ LevelDBFileName(n) /\ n \notin DOMAIN rets.dir
    /\ \E n \in DOMAIN rets.dir : rets.dir[n] = "directory" /\ LevelDBFileName(n)

\* C19: a compact that returns success leaves the database with exactly the
\* entries it had, leaves every entry of the directory that is no LevelDB
\* file (the backup apart) as it was, and leaves no leveldb.bak.
C19_CompactKeepsEntries ==
    [][Ran("compact") /\ rets'.err = NoError
         => /\ HoldsDatabase(rets')
            /\ rets'.entries = rets.entries
            /\ \A n \in DOMAIN rets.dir :
                   ~LevelDBFileName(n) => n \in DOMAIN rets'.dir /\ rets'.dir[n] = rets.dir[n]
            /\ bakfile \notin DOMAIN rets'.dir]_vars

C19_Witness ==
    /\ mode = "database" /\ rets.last.name = "compact" /\ rets.err = NoError
    /\ rets.entries # NoEntries
    /\ \E n \in DOMAIN rets.dir : ~LevelDBFileName(n)

(***************************************************************************)
(* Properties of dump and load                                             *)
(***************************************************************************)

\* b in the bin 8 format of MessagePack
Binary(b) == <<196, Len(b)>> \o b

\* the keys K in the order of the comparer of the database
InKeyOrder(K) ==
    CHOOSE o \in Orders(K) :
        \A i, j \in 1..Cardinality(K) : i < j => compareKeys(rets.IndexedDB, o[i], o[j]) < 0

\* the keys dump passes over: those of the key range of the command
DumpedKeys == { k \in DOMAIN rets.entries : inKeyRange(rets.IndexedDB, rets.last.KeyRange, k) }

\* the fixmap header for the keys K, then the keys and their values in the
\* bin format, one after the other
BinaryMap(K) ==
    <<128 + Cardinality(K)>>
      \o Flatten([n \in 1..Cardinality(K) |->
                    Binary(InKeyOrder(K)[n]) \o Binary(rets.entries[InKeyOrder(K)[n]])])

\* what load makes of the output of the last command in a directory with
\* nothing in it
LoadedIntoEmpty ==
    LoadDB(LoadCommand(rets.stdout) @@ [IndexedDB |-> rets.IndexedDB],
           [dir |-> <<>>, entries |-> NoEntries], rets.stdout)

InSelectedRange(c, k) ==
    /\ c.KeyRange.hasStart => compareKeys(rets.IndexedDB, c.KeyRange.Start, k) <= 0
    /\ c.KeyRange.hasLimit => compareKeys(rets.IndexedDB, k, c.KeyRange.Limit) < 0

\* the matcher of the delete command c matches k: every key when no key is
\* given, else the keys given
MatcherMatches(c, k) == Len(c.args) = 0 \/ k = c.key

\* the keys delete is to remove
Selected(c, K) == { k \in K : InSelectedRange(c, k) /\ (MatcherMatches(c, k) # c.Invert) }

\* C21: a delete that is no dry run removes exactly the stored keys that lie
\* in the key range and for which the matcher and --invert-match differ; a
\* key outside the key range stays, with --invert-match too.
C21_DeleteRemovesSelected ==
    [][Ran("delete") /\ rets'.err = NoError /\ ~rets'.last.DryRun
         => rets'.entries =
              [k \in DOMAIN rets.entries \ Selected(rets'.last, DOMAIN rets.entries)
                 |-> rets.entries[k]]]_vars

C21_Witness ==
    /\ mode = "database" /\ rets.last.name = "delete" /\ rets.err = NoError
    /\ rets.last.Invert /\ rets.last.KeyRange # NoRange /\ Len(rets.last.args) = 1
    /\ \E k \in DOMAIN rets.entries : ~InSelectedRange(rets.last, k) /\ k # rets.last.key

\* what a dry run is to print: for delete the keys it would delete, in the
\* order of the comparer, for destroy the files it would remove
WouldBeRemoved(c, s) ==
    IF c.name = "delete" THEN InKeyOrder(Selected(c, DOMAIN s.entries))
    ELSE { n \in DOMAIN s.dir : s.dir[n] = "regular" /\ LevelDBFileName(n) }

\* C22: delete --dry-run and destroy --dry-run leave the entries of the
\* database and the entries of its directory as they were, and print what
\* would be removed and nothing else.
C22_DryRunChangesNothing ==
    [][(Ran("delete") \/ Ran("destroy")) /\ rets'.last.DryRun
         => /\ rets'.entries = rets.entries
            /\ rets'.dir = rets.dir
            /\ rets'.err = NoError => rets'.stdout = WouldBeRemoved(rets'.last, rets)
            /\ rets'.err # NoError => rets'.stdout = <<>>]_vars

C22_Witness ==
    /\ mode = "database" /\ rets.last.name = "delete" /\ rets.last.DryRun
    /\ rets.err = NoError
    /\ rets.last.key \in DOMAIN rets.entries
    /\ rets.stdout = <<rets.last.key>>
    /\ LockFile \notin DOMAIN rets.dir

(***************************************************************************)
(* The composition of the limit in the prefix-range engine                 *)
(***************************************************************************)

\* a grammar level: the bytes it writes itself, what the deeper level
\* returned, and the encoding of the successor of its own value (empty when
\* there is none)
Level(own, deeper, successor) == [own |-> own, deeper |-> deeper, successor |-> successor]

\* the limit the composition rule gives a level
ComposedLimit(lv) ==
    IF lv.deeper.limit # <<>> THEN lv.own \o lv.deeper.limit ELSE lv.successor

TypeTags ==
    { indexedDBKeyNullTypeByte, indexedDBKeyStringTypeByte, indexedDBKeyDateTypeByte,
      indexedDBKeyNumberTypeByte, indexedDBKeyArrayTypeByte, indexedDBKeyMinKeyTypeByte,
      indexedDBKeyBinaryTypeByte }

\* the type tags the comparator ranks above the tag t
RankedAbove(t) ==
    { u \in TypeTags : keyTypeByteToKeyType(u) > keyTypeByteToKeyType(t) }

\* the tag that comes next after t in the order of the comparator, as the
\* bytes of a limit
NextRankedTag(t) ==
    IF RankedAbove(t) = {} THEN <<>>
    ELSE << CHOOSE u \in RankedAbove(t) :
              \A w \in RankedAbove(t) : keyTypeByteToKeyType(u) <= keyTypeByteToKeyType(w) >>

\* a discriminator byte
ByteLevel(s, nexts) ==
    Level(<<s[1]>>, callNext(Drop(s, 1), nexts), IF s[1] < 255 THEN <<s[1] + 1>> ELSE <<>>)

\* a varint, whole or cut: its least value, and its greatest value plus one
VarIntLevel(s, nexts) ==
    LET v == scanVarInt(s)
    IN  Level(encodeVarInt(v.minv), callNext(Drop(s, v.i), nexts),
              IF U64Cmp(v.maxv, MaxInt64) < 0 THEN encodeVarInt(U64Inc(v.maxv)) ELSE <<>>)

\* whether more than n bytes follow in rest, n being a 64-bit word
MoreThan(rest, n) == U64Cmp(U64FromNat(Len(rest)), n) > 0

\* a binary (width 1) or a string (width 2) whose declared length d.v is
\* whole: the length and the payload bytes present
PayloadLevel(d, nexts, width) ==
    LET n    == IF width = 2 THEN U64Shl(d.v, 1) ELSE d.v
        body == IF MoreThan(d.rest, n) THEN Take(d.rest, U64ToNat(n)) ELSE d.rest
    IN  Level(encodeVarInt(d.v) \o body,
              IF MoreThan(d.rest, n) THEN callNext(Drop(d.rest, U64ToNat(n)), nexts)
              ELSE NoTails,
              IF succBytes(body) # <<>> THEN encodeVarInt(d.v) \o succBytes(body)
              ELSE IF I64Cmp(d.v, MaxInt64) < 0 THEN encodeVarInt(U64Inc(d.v))
              ELSE <<>>)

\* a binary or a string: while its length is cut it is the varint of the length
LengthPrefixedLevel(s, nexts, width) ==
    IF validVarInt(s) THEN PayloadLevel(decodeVarInt(s), nexts, width)
    ELSE VarIntLevel(s, <<>>)

\* an encoded value of a known type: the tag, and what the body returned
ValueLevel(s, nexts) ==
    Level(<<s[1]>>,
          CASE s[1] \in {indexedDBKeyNullTypeByte, indexedDBKeyMinKeyTypeByte} ->
                 callNext(Drop(s, 1), nexts)
            [] Len(s) = 1 -> NoTails
            [] s[1] = indexedDBKeyArrayTypeByte -> prefixArrayBody(Drop(s, 1), nexts)
            [] s[1] = indexedDBKeyBinaryTypeByte -> prefixBinary(Drop(s, 1), nexts)
            [] s[1] = indexedDBKeyStringTypeByte -> prefixStringWithLength(Drop(s, 1), nexts)
            [] OTHER -> prefixDouble(Drop(s, 1), nexts),
          NextRankedTag(s[1]))

\* whether the component c can interpret what s begins with
Interpretable(c, s) ==
    CASE c = "prefixByte" -> TRUE
      [] c = "prefixEncodedIDBKeys" -> s[1] \in TypeTags
      [] OTHER -> ~scanVarInt(s).bad

\* the level the component c sees at the head of s
LevelOf(c, s, nexts) ==
    CASE c = "prefixByte" -> ByteLevel(s, nexts)
      [] c = "prefixVarInt" -> VarIntLevel(s, nexts)
      [] c = "prefixBinary" -> LengthPrefixedLevel(s, nexts, 1)
      [] c = "prefixStringWithLength" -> LengthPrefixedLevel(s, nexts, 2)
      [] c = "prefixEncodedIDBKeys" -> ValueLevel(s, nexts)

\* the key prefix level of a prefix that holds a whole key prefix
KeyPrefixLevel(d) ==
    Level(encodeKeyPrefix(<<d.prefix>>),
          IF Len(d.rest) > 0 THEN prefixKeyBody(d.rest, d.prefix) ELSE NoTails,
          encodeKeyPrefix(succKeyPrefix(d.prefix)))

WholeKeyPrefix(p) ==
    Len(p) >= 1 + databaseIdBytes(p[1]) + objectStoreIdBytes(p[1]) + indexIdBytes(p[1])

Components ==
    { "prefixByte", "prefixVarInt", "prefixBinary", "prefixStringWithLength",
      "prefixEncodedIDBKeys" }

\* the lists of components the levels are followed by
NextLists ==
    { <<>>, <<"prefixByte">>, <<"prefixVarInt", "prefixByte">>, <<"prefixEncodedIDBKeys">>,
      <<"prefixStringWithLength", "prefixStringWithLength">> }

\* the ends of p that a component can be called on
EndsOf(p) == { Drop(p, n) : n \in 0..(Len(p) - 1) }

\* the component c, called on s, returns the limit the rule gives its level
LimitComposed(c, s, nexts) ==
    (Interpretable(c, s) /\ ~prefixComponent(c, s, nexts).panic) =>
        prefixComponent(c, s, nexts).limit = ComposedLimit(LevelOf(c, s, nexts))

\* Prefix returned a range for a prefix that holds a whole key prefix
PrefixReturned ==
    /\ mode = "prefix" /\ pc = 1 /\ "range" \in DOMAIN rets /\ rets.range.has
    /\ WholeKeyPrefix(keys[1])

\* C23: at every grammar level (key prefix, discriminator byte, varint,
\* binary/string, encoded value), if the deeper level returned a non-empty
\* limit then the limit of this level is its own start bytes followed by that
\* limit; otherwise it is the successor of its own value (byte+1, varint
\* maximum+1, succBytes of the body or else declared length+1, the next-ranked
\* type tag, the successor key prefix), and it is absent when that successor
\* does not exist.
C23_LimitComposition ==
    PrefixReturned =>
        /\ rets.range.Limit = ComposedLimit(KeyPrefixLevel(decodeKeyPrefix(keys[1])))
        /\ rets.range.hasLimit = (rets.range.Limit # <<>>)
        /\ \A s \in EndsOf(decodeKeyPrefix(keys[1]).rest) :
             \A c \in Components : \A nexts \in NextLists : LimitComposed(c, s, nexts)

\* the array of null and min-key: min-key has no successor, so null gives its
\* own (the array tag), and the count, the array and the key prefix each put
\* their own bytes before it
C23_Witness ==
    /\ PrefixReturned
    /\ keys[1] = ObjectStoreKP \o <<4, 2, 0, 5>>
    /\ rets.range.Limit = ObjectStoreKP \o <<4, 2, 4>>

(***************************************************************************)
(* The comparison of binaries and strings                                  *)
(***************************************************************************)

\* the lexicographic order of two byte sequences: the first byte that differs
\* decides, and a sequence sorts before every longer one it begins
Lexicographic(a, b) ==
    IF a = b THEN 0
    ELSE IF \E n \in 0..MinNat(Len(a), Len(b)) :
              /\ Take(a, n) = Take(b, n)
              /\ (n = Len(a) \/ (n < Len(b) /\ a[n + 1] < b[n + 1]))
    THEN -1
    ELSE 1

\* the caller compares two object-store data keys whose values are both
\* binaries or both strings with a length that decodes
SamePayloadType ==
    /\ mode = "compare" /\ "ab" \in DOMAIN rets
    /\ keys[1] \in ObjectStoreKeys /\ keys[2] \in ObjectStoreKeys
    /\ Len(BodyA) > 1 /\ Len(BodyB) > 1
    /\ BodyA[1] = BodyB[1]
    /\ BodyA[1] \in {indexedDBKeyBinaryTypeByte, indexedDBKeyStringTypeByte}
    /\ validVarInt(Drop(BodyA, 1)) /\ validVarInt(Drop(BodyB, 1))

\* the bytes after the length of the value in body
Available(body) == decodeVarInt(Drop(body, 1)).rest

\* the length the value in body declares, in characters for a string
DeclaredLength(body) == decodeVarInt(Drop(body, 1)).v

\* the payload bytes the value in body declares: two for each character
DeclaredBytes(body) ==
    IF body[1] = indexedDBKeyStringTypeByte THEN U64Shl(DeclaredLength(body), 1)
    ELSE DeclaredLength(body)

\* the payload of body is fully present
FullyPresent(body) == U64Cmp(U64FromNat(Len(Available(body))), DeclaredBytes(body)) >= 0

\* the payload of a value that is fully present
Payload(body) == Take(Available(body), U64CapNat(DeclaredBytes(body), Len(Available(body))))

\* the minimum of both declared and both available lengths
CommonLength(a, b) ==
    MinNat(MinNat(Len(Available(a)), Len(Available(b))),
           MinNat(U64CapNat(DeclaredBytes(a), Len(Available(a))),
                  U64CapNat(DeclaredBytes(b), Len(Available(b)))))

\* what C24 says the comparison of the payloads of a and b returns
PayloadOrder(a, b) ==
    IF FullyPresent(a) /\ FullyPresent(b) THEN Lexicographic(Payload(a), Payload(b))
    ELSE IF Lexicographic(Take(Available(a), CommonLength(a, b)),
                          Take(Available(b), CommonLength(a, b))) # 0
    THEN Lexicographic(Take(Available(a), CommonLength(a, b)),
                       Take(Available(b), CommonLength(a, b)))
    ELSE U64Cmp(DeclaredBytes(a), DeclaredBytes(b))

\* what compareBinary or compareStringWithLength returns for the values
PayloadCompared(a, b) ==
    IF a[1] = indexedDBKeyStringTypeByte THEN compareStringWithLength(Drop(a, 1), Drop(b, 1))
    ELSE compareBinary(Drop(a, 1), Drop(b, 1))

\* C24: compareBinary and compareStringWithLength (payload of 2 bytes per
\* declared character): when both payloads are fully present the result is the
\* lexicographic comparison of the two payloads; when either side declares
\* more bytes than are available, the result is the lexicographic comparison
\* of the first m bytes of each payload, m being the minimum of both declared
\* and both available lengths, and on a tie the comparison of the declared
\* lengths.
C24_PayloadOrder ==
    SamePayloadType =>
        /\ ~PayloadCompared(BodyA, BodyB).panic
        /\ PayloadCompared(BodyA, BodyB).ret = PayloadOrder(BodyA, BodyB)
        /\ rets.ab = PayloadOrder(BodyA, BodyB)

\* a binary that declares 5 bytes and one that declares 2, each with the one
\* byte 97: the common byte ties and the declared lengths decide
C24_Witness ==
    /\ SamePayloadType
    /\ BodyA = <<6, 5, 97>> /\ BodyB = <<6, 2, 97>>
    /\ rets.ab = 1

(***************************************************************************)
(* Arrays that hold fewer elements than they declare                       *)
(***************************************************************************)

\* the whole elements two arrays can have in common before one of them ends
CommonElements == UNION { [1..n -> ArrayElems] : n \in 0..MaxArrayCount }

\* the body is an array declaring a count below 128 that begins with the
\* elements es, of which it declares more
BeginsWithElements(body, es) ==
    /\ Len(body) >= 2 + Len(Flatten(es))
    /\ body[1] = indexedDBKeyArrayTypeByte
    /\ body[2] < 128 /\ Len(es) < body[2]
    /\ SubSeq(body, 3, 2 + Len(Flatten(es))) = Flatten(es)

\* what follows the elements es in the array of body
AfterElements(body, es) == Drop(body, 2 + Len(Flatten(es)))

\* the caller compares two object-store data keys with arrays that begin with
\* the same elements es, fewer than either declares
ArraysShare(es) ==
    /\ mode = "compare" /\ "ab" \in DOMAIN rets
    /\ keys[1] \in ObjectStoreKeys /\ keys[2] \in ObjectStoreKeys
    /\ BeginsWithElements(BodyA, es) /\ BeginsWithElements(BodyB, es)

\* C25 as stated: when two arrays are compared and the element-wise comparison
\* runs out of data on one side before min(count_a, count_b) elements were
\* compared (that side holds fewer elements than it declares), the side whose
\* data ended sorts before the side that still has data; the declared counts
\* alone do not decide the result.
C25_EndedDataSortsFirst ==
    \A es \in CommonElements :
        /\ (ArraysShare(es) /\ AfterElements(BodyA, es) = <<>>
                            /\ AfterElements(BodyB, es) # <<>>) => rets.ab = -1
        /\ (ArraysShare(es) /\ AfterElements(BodyA, es) # <<>>
                            /\ AfterElements(BodyB, es) = <<>>) => rets.ab = 1

\* C25 amended: when two arrays are compared and the element-wise comparison
\* runs out of data on one side before min(count_a, count_b) elements were
\* compared (that side holds fewer elements than it declares), the result is
\* the comparison of the declared counts, whichever side still has data; the
\* declared counts alone decide the result.
C25_DeclaredCountsDecide ==
    \A es \in CommonElements :
        (ArraysShare(es) /\ (AfterElements(BodyA, es) = <<>> \/ AfterElements(BodyB, es) = <<>>))
            => rets.ab = CmpInt(BodyA[2], BodyB[2])

\* an array that declares two elements and holds null, against the array of
\* null and min-key: the counts are equal and so are the keys
C25_Witness ==
    /\ ArraysShare(<< <<0>> >>)
    /\ BodyA = <<4, 2, 0>> /\ BodyB = <<4, 2, 0, 5>>
    /\ rets.ab = 0

(***************************************************************************)
(* Dates and numbers whose 8 bytes are cut                                 *)
(***************************************************************************)

\* the caller compares two object-store data keys of which the first ends in
\* a date or a number with n of its 8 payload bytes, and the second is a
\* longer key that begins with the bytes of the first
CutDouble(n) ==
    /\ mode = "compare" /\ "ab" \in DOMAIN rets
    /\ keys[1] \in ObjectStoreKeys /\ keys[2] \in ObjectStoreKeys
    /\ Len(BodyA) = 1 + n
    /\ BodyA[1] \in {indexedDBKeyDateTypeByte, indexedDBKeyNumberTypeByte}
    /\ IsPrefixOf(keys[1], keys[2]) /\ Len(keys[2]) > Len(keys[1])

\* C26 as stated: for two object-store-data keys a and b with the same key
\* prefix where a ends in a date or number value whose 8-byte payload is
\* truncated (0 to 7 payload bytes present) and b is a longer key that begins
\* with the bytes of a, Compare(a, b) = Less.
C26_CutDoubleSortsFirst == \A n \in 0..7 : CutDouble(n) => rets.ab = -1

\* C26 amended: for two object-store-data keys a and b with the same key
\* prefix where a ends in a date or number value whose 8-byte payload is
\* absent (0 payload bytes present) and b is a longer key that begins with the
\* bytes of a, Compare(a, b) = Less.
C26_AbsentDoubleSortsFirst == CutDouble(0) => rets.ab = -1

\* the tag of a number alone against the number 0.0
C26_Witness ==
    /\ CutDouble(0)
    /\ BodyA = <<3>> /\ BodyB = <<3>> \o DoubleZero
    /\ rets.ab = -1

(***************************************************************************)
(* What the prefix-range engine cannot interpret                           *)
(***************************************************************************)

\* the kinds of key whose body is an encoded value
ValueKinds == {objectStoreData, existsEntry, blobEntry, indexData}

\* the body rest of a key of kind t begins with something Prefix cannot
\* interpret right after the key prefix
BodyUninterpreted(t, rest) ==
    \/ t = invalidType
    \/ t \in ValueKinds /\ rest[1] \notin TypeTags

\* the body of a key with an encoded value is the tag of a date or a number
\* and fewer than 8 bytes of its payload
ShortDouble(t, rest) ==
    /\ t \in ValueKinds
    /\ rest[1] \in {indexedDBKeyDateTypeByte, indexedDBKeyNumberTypeByte}
    /\ Len(rest) \in 2..8

\* the body of a global metadata key is the discriminator of the database
\* free list and a varint whose ninth byte has the continuation bit
OverlongVarInt(t, rest) ==
    /\ t = globalMetadata
    /\ rest[1] = databaseFreeListTypeByte
    /\ Len(rest) >= 10 /\ \A i \in 2..10 : rest[i] >= 128

\* the range whose start is the bytes own and whose limit is successor
RangeIs(r, own, successor) ==
    /\ r.Start = own /\ r.Limit = successor
    /\ r.hasLimit = (successor # <<>>)

\* the range the claim gives a prefix whose key prefix is kp, of kind t, and
\* whose body is rest
NothingContributed(r, kp, t, rest) ==
    /\ BodyUninterpreted(t, rest) =>
         RangeIs(r, encodeKeyPrefix(<<kp>>), encodeKeyPrefix(succKeyPrefix(kp)))
    /\ (ShortDouble(t, rest) \/ OverlongVarInt(t, rest)) =>
         RangeIs(r, encodeKeyPrefix(<<kp>>) \o <<rest[1]>>,
                 encodeKeyPrefix(<<kp>>) \o (IF t = globalMetadata THEN <<rest[1] + 1>>
                                             ELSE NextRankedTag(rest[1])))

\* the component c, called on something it cannot interpret, returns no bytes,
\* and a discriminator byte b before it returns itself and its successor
ReturnsNothing(c, s, nexts, b) ==
    ~Interpretable(c, s) =>
        /\ prefixComponent(c, s, nexts) = NoTails
        /\ prefixByte(<<b>> \o s, <<c>> \o nexts)
             = Tails(<<b>>, IF b < 255 THEN <<b + 1>> ELSE <<>>)

\* Prefix was called with a whole key prefix and a body
PrefixWithBody ==
    /\ mode = "prefix" /\ pc = 1
    /\ WholeKeyPrefix(keys[1]) /\ decodeKeyPrefix(keys[1]).rest # <<>>

\* the prefix holds one of the things Prefix cannot interpret right after the
\* key prefix or after the first byte of the body
HoldsUninterpreted(t, rest) ==
    BodyUninterpreted(t, rest) \/ ShortDouble(t, rest) \/ OverlongVarInt(t, rest)

\* C27: when the body of a prefix holds something Prefix cannot interpret (a
\* key prefix of invalid kind, an unknown encoded-value type tag, a varint
\* whose ninth byte still has the continuation bit, a date/number payload
\* shorter than 8 bytes), Prefix does not fail: the uninterpretable component
\* and everything after it contribute no bytes, so start ends at the enclosing
\* level's own bytes and limit is the enclosing level's successor.
C27_UninterpretedContributesNothing ==
    PrefixWithBody =>
        /\ HoldsUninterpreted(Type(decodeKeyPrefix(keys[1]).prefix),
                              decodeKeyPrefix(keys[1]).rest) =>
             /\ ~crashed /\ "range" \in DOMAIN rets /\ rets.range.has
             /\ NothingContributed(rets.range, decodeKeyPrefix(keys[1]).prefix,
                                   Type(decodeKeyPrefix(keys[1]).prefix),
                                   decodeKeyPrefix(keys[1]).rest)
        /\ \A s \in EndsOf(decodeKeyPrefix(keys[1]).rest) :
             \A c \in Components : \A nexts \in NextLists : \A b \in {0, 255} :
                 ReturnsNothing(c, s, nexts, b)

\* the database free list with nine bytes that all have the continuation bit:
\* the range is that of the discriminator byte alone
C27_Witness ==
    /\ PrefixWithBody /\ "range" \in DOMAIN rets
    /\ keys[1] = GlobalKP \o <<100, 255, 255, 255, 255, 255, 255, 255, 255, 255>>
    /\ rets.range.Start = GlobalKP \o <<100>>
    /\ rets.range.Limit = GlobalKP \o <<101>>

====
